---------------------------- MODULE Spec2Model ----------------------------
(***************************************************************************)
(* A model of the s3lfs transfer engine (src/s3lfs/core.py): engines that  *)
(* share one manifest file, one lock file, one working tree and one object *)
(* store, each with its own in-memory manifest and its own worker pool.    *)
(***************************************************************************)
EXTENDS Integers, Sequences, FiniteSets, TLC

(***************************************************************************)
(* Paths and patterns are sequences of one-character strings, so that the  *)
(* resolvers' string operations (startswith, split, fnmatch) are computed. *)
(***************************************************************************)
PathA == <<"a">>
PathDA == <<"d", "/", "a">>
Paths == {PathA, PathDA}

PatD == <<"d">>
PatStarStarA == <<"*", "*", "/", "a">>
Patterns == {PathA, PatD, PatStarStarA}

\* File contents; Absent is a path with no file, Torn the output of a
\* decompression that stopped part-way, Big a content whose compressed blob
\* is larger than chunk_size.
Absent == 0
Torn == 3
Big == 4
Contents == {1, 2}

\* SHA-256 of a content, as hash_file computes it: distinct contents have
\* distinct digests and no digest is the "no entry" value None.
None == <<"none">>
hash_file(c) == <<"sha256", c>>
Digests == {hash_file(c) : c \in Contents \cup {Torn, Big}}

\* gzip and its inverse: a blob is not the plaintext.
compress_file(c) == <<"gz", c>>
decompress_file(b) == b[2]

-----------------------------------------------------------------------------
(* String helpers of the resolvers. *)

startswith(s, pre) ==
    /\ Len(pre) <= Len(s)
    /\ SubSeq(s, 1, Len(pre)) = pre

Contains(s, ch) == \E i \in 1..Len(s) : s[i] = ch

\* str.split("/")
RECURSIVE split(_)
split(s) ==
    IF \A i \in 1..Len(s) : s[i] # "/"
    THEN <<s>>
    ELSE LET k == CHOOSE i \in 1..Len(s) :
                     s[i] = "/" /\ \A j \in 1..(i - 1) : s[j] # "/"
         IN <<SubSeq(s, 1, k - 1)>> \o split(SubSeq(s, k + 1, Len(s)))

\* str.rstrip("/") and str.lstrip("/")
RECURSIVE rstrip(_)
rstrip(s) ==
    IF s # <<>> /\ s[Len(s)] = "/" THEN rstrip(SubSeq(s, 1, Len(s) - 1)) ELSE s

RECURSIVE lstrip(_)
lstrip(s) ==
    IF s # <<>> /\ s[1] = "/" THEN lstrip(Tail(s)) ELSE s

\* fnmatch.fnmatch on the characters of the model: "*" matches any run of
\* characters (a "/" included), "?" any one character, any other character
\* itself.
RECURSIVE fnmatch(_, _)
fnmatch(name, pat) ==
    IF pat = <<>> THEN name = <<>>
    ELSE IF pat[1] = "*"
         THEN \/ fnmatch(name, Tail(pat))
              \/ (name # <<>> /\ fnmatch(Tail(name), pat))
    ELSE IF name = <<>> THEN FALSE
    ELSE IF pat[1] = "?" THEN fnmatch(Tail(name), Tail(pat))
    ELSE name[1] = pat[1] /\ fnmatch(Tail(name), Tail(pat))

\* The position of the first "**" in a pattern, 0 if it has none.
FindStarStar(pat) ==
    IF \E i \in 1..(Len(pat) - 1) : pat[i] = "*" /\ pat[i + 1] = "*"
    THEN CHOOSE i \in 1..(Len(pat) - 1) :
             /\ pat[i] = "*" /\ pat[i + 1] = "*"
             /\ \A j \in 1..(i - 1) : ~(pat[j] = "*" /\ pat[j + 1] = "*")
    ELSE 0

\* S3LFS._glob_match
SegmentsMatch(fileParts, patParts) ==
    /\ Len(patParts) = Len(fileParts)
    /\ \A i \in 1..Len(patParts) : fnmatch(fileParts[i], patParts[i])

glob_match(file_path, pattern) ==
    LET k == FindStarStar(pattern) IN
    IF k # 0
    THEN LET rawPrefix == SubSeq(pattern, 1, k - 1)
             rawSuffix == SubSeq(pattern, k + 2, Len(pattern))
         IN IF FindStarStar(rawSuffix) = 0
            THEN LET prefix == rstrip(rawPrefix)
                     suffix == lstrip(rawSuffix)
                     remaining_path ==
                         IF prefix # <<>>
                         THEN lstrip(SubSeq(file_path, Len(prefix) + 1,
                                            Len(file_path)))
                         ELSE file_path
                 IN IF prefix # <<>> /\ ~startswith(file_path, prefix)
                    THEN FALSE
                    ELSE IF suffix # <<>>
                         THEN fnmatch(remaining_path, suffix)
                         ELSE prefix = <<>> \/ startswith(file_path, prefix)
            ELSE fnmatch(file_path, pattern)
    ELSE SegmentsMatch(split(file_path), split(pattern))

has_glob_chars(path_str) ==
    \E ch \in {"*", "?", "[", "]"} : Contains(path_str, ch)

\* The prefix of a directory's entries: path_str with a "/" at its end.
BarePrefix(path_str) == path_str

DirectoryPrefix(path_str) ==
    IF path_str[Len(path_str)] = "/" THEN path_str ELSE path_str \o <<"/">>

\* S3LFS._resolve_manifest_paths: the keys a pattern selects among the keys
\* of a files map.
ManifestMatches(keys, path_str) ==
    IF path_str \in keys THEN {path_str}
    ELSE IF has_glob_chars(path_str)
         THEN {f \in keys : glob_match(f, path_str)}
    ELSE LET prefix == DirectoryPrefix(path_str)
             matched == {f \in keys : startswith(f, prefix)}
         IN IF matched # {} THEN matched
            ELSE {f \in keys : f = path_str}

resolve_manifest_paths(files, path_str) ==
    ManifestMatches({f \in Paths : files[f] # None}, path_str)

\* pathlib's Path.glob on path segments: "**" stands for zero or more
\* directories, every other segment is matched against one name.
RECURSIVE PathGlob(_, _)
PathGlob(fileParts, patParts) ==
    IF patParts = <<>> THEN fileParts = <<>>
    ELSE IF patParts[1] = <<"*", "*">>
         THEN \/ PathGlob(fileParts, Tail(patParts))
              \/ (Len(fileParts) > 1 /\ PathGlob(Tail(fileParts), patParts))
    ELSE /\ fileParts # <<>>
         /\ fnmatch(fileParts[1], patParts[1])
         /\ PathGlob(Tail(fileParts), Tail(patParts))

\* S3LFS._resolve_filesystem_paths on the files of a working tree: an
\* existing file; the files under an existing directory; Path(".").glob for
\* a pattern with a "/", glob.glob for one without.
FilesystemMatches(files, path) ==
    IF path \in files THEN {path}
    ELSE IF \E f \in files : startswith(f, path \o <<"/">>)
         THEN {f \in files : startswith(f, path \o <<"/">>)}
    ELSE IF Contains(path, "/")
         THEN {f \in files : PathGlob(split(f), split(path))}
    ELSE {f \in files : Len(split(f)) = 1 /\ fnmatch(f, path)}

resolve_filesystem_paths(tree, path) ==
    FilesystemMatches({f \in Paths : tree[f] # Absent}, path)

-----------------------------------------------------------------------------
(* The engines and what they share. *)

Procs == {"A", "B"}

\* Bounds of the model: calls started by all engines together, writes to the
\* working tree from outside, and store calls that fail.
MaxCalls == 2
MaxEdits == 1
MaxFaults == 1

DEFAULT_THREAD_POOL_SIZE == 8
RETRY_TIMES == 3

NoOne == <<"free">>
MainThread(p) == <<p, "main">>
Worker(p, f) == <<p, f>>

\* The object key f"{repo_prefix}/assets/{file_hash}/{file_path}.gz".
s3_key(d, f) == <<"assets", d, f>>
\* The key f"{s3_key}.chunk{chunk_idx}" of a chunk of a blob that split_file
\* has split, and the chunk itself.
Chunks == {0, 1}
chunk_key(k, chunk_idx) == k \o <<chunk_idx>>
chunk(b, chunk_idx) == <<"chunk", b, chunk_idx>>
Keys ==
    {s3_key(d, f) : d \in Digests, f \in Paths}
    \cup {chunk_key(s3_key(hash_file(Big), f), i) : f \in Paths, i \in Chunks}
KeyDigest(k) == k[2]
NoObject == <<"404">>
md5(b) == <<"md5", b>>

\* The order in which list_objects_v2 returns keys and sorted manifest keys
\* are walked: by digest, then by path.
KeyRank(k) == 10 * k[2][2] + Len(k[3])
PathRank(f) == Len(f)

EmptyFiles == [f \in Paths |-> None]
NoTask == [pc |-> "none", hash |-> None, fhash |-> None, blob |-> NoObject,
           uploaded |-> FALSE, attempt |-> 0]
NoTasks == [f \in Paths |-> NoTask]
IdleMain == [pc |-> "idle", kind |-> "none", pat |-> <<>>, files |-> {},
             seen |-> {}, uploaded |-> {}, hashes |-> {}, keys |-> {},
             keep |-> TRUE, repeat |-> FALSE, alone |-> FALSE,
             out |-> "none", c0 |-> 0, e0 |-> 0, f0 |-> 0,
             saved |-> "none", doc0 |-> EmptyFiles]

VARIABLES
    fs,        \* the working tree: path -> content, or Absent
    store,     \* the bucket: key -> blob, or NoObject
    disk,      \* the "files" map of the manifest file
    mem,       \* each engine's self.manifest["files"]
    lock,      \* the thread that holds the flock on the lock file
    main,      \* each engine's calling thread: the call it runs and where
    task,      \* each engine's worker tasks, one per file of the call
    shutdown,  \* each engine's _shutdown_requested
    calls,     \* calls started so far
    edits,     \* outside writes to the working tree so far
    faults,    \* failed store calls so far
    hist,      \* per engine, the last clean track: what the properties need
    tmp,       \* the temporary file save_manifest writes next to the manifest
    query,     \* a call of the resolvers: a set of paths and a pattern
    answer     \* what the resolvers return for it

vars == <<fs, store, disk, mem, lock, main, task, shutdown, calls, edits,
          faults, hist, tmp, query, answer>>

-----------------------------------------------------------------------------
(* The lock file: S3LFS._lock_context takes an exclusive flock on a file   *)
(* handle of its own and releases it in a finally clause.                  *)

\* A lock that is granted whoever holds it.
LockShared(t) == TRUE

\* portalocker.lock(lock, LOCK_EX) returns when no other handle holds it.
portalocker_lock(t) == lock = NoOne

Acquire(t) ==
    /\ portalocker_lock(t)
    /\ lock' = t

\* An unlock that leaves the lock with its holder.
LockKept(t) == t

\* portalocker.unlock(lock) in the finally clause: the holder after it.
portalocker_unlock(t) == NoOne

Release(t) ==
    /\ lock = t
    /\ lock' = portalocker_unlock(t)

Finished(p) == \A f \in main[p].files : task[p][f].pc \in {"done", "failed"}

\* An executor that is left without waiting for its tasks.
PoolAbandoned(p) == TRUE

\* Leaving the "with ThreadPoolExecutor(...)" block: shutdown(wait=True).
PoolDrained(p) == Finished(p)

Others(p) == Procs \ {p}

\* A store call fails: the environment's choice, within the budget.
Fault ==
    /\ faults < MaxFaults
    /\ faults' = faults + 1

SetTask(p, f, t) == task' = [task EXCEPT ![p][f] = t]
AtTask(p, f, pc) == task[p][f].pc = pc

\* The retry decorator of upload and download: a BotoCoreError, ClientError
\* or SSLError runs the function again, three times at most; the error of
\* the last run goes to the caller.
Retry(p, f, first) ==
    IF task[p][f].attempt < RETRY_TIMES
    THEN SetTask(p, f, [task[p][f] EXCEPT !.pc = first, !.attempt = @ + 1])
    ELSE SetTask(p, f, [task[p][f] EXCEPT !.pc = "failed"])

\* What the properties keep of an engine's last track that ended without an
\* error, a cancellation or a change of the working tree under it: its
\* pattern, the files it tracked with their contents, and the working tree
\* it ran over.
NoHist == [pat |-> <<"-">>, snap |-> [f \in Paths |-> Absent],
           tree |-> [f \in Paths |-> Absent]]

\* Every call starts from the idle engine and counts against the budget.  A
\* call other than a checkout ends what is kept of the engine's earlier
\* track, unless it is a track of the same pattern over an unchanged tree.
\* The call notes whether every other engine is idle when it starts.
Repeat(p, kind, pat) ==
    kind = "track" /\ hist[p].pat = pat /\ hist[p].tree = fs

Begin(p, kind, pat, pc, files, keep) ==
    /\ main[p].pc = "idle"
    /\ calls < MaxCalls
    /\ calls' = calls + 1
    /\ main' = [main EXCEPT ![p] =
                   [IdleMain EXCEPT !.pc = pc, !.kind = kind, !.pat = pat,
                                    !.files = files, !.keep = keep,
                                    !.repeat = Repeat(p, kind, pat),
                                    !.alone = \A q \in Others(p) :
                                                  main[q].pc = "idle",
                                    !.c0 = calls + 1, !.e0 = edits,
                                    !.f0 = faults]]
    /\ task' = [task EXCEPT ![p] = NoTasks]
    /\ hist' = IF kind = "checkout" \/ Repeat(p, kind, pat)
               THEN hist
               ELSE [hist EXCEPT ![p] = NoHist]

\* The call returns (out = "ok") or raises (out = "error"); its locals go.
End(p, out) ==
    /\ main' = [main EXCEPT ![p] = [IdleMain EXCEPT !.out = out]]
    /\ task' = [task EXCEPT ![p] = NoTasks]

At(p, kind, pc) == main[p].kind = kind /\ main[p].pc = pc

\* One task per file, all started: the pool has a thread for each.
Submit(p, files, pc) ==
    /\ Cardinality(files) <= DEFAULT_THREAD_POOL_SIZE
    /\ task' = [task EXCEPT ![p] =
                   [f \in Paths |-> IF f \in files
                                    THEN [NoTask EXCEPT !.pc = pc]
                                    ELSE NoTask]]

-----------------------------------------------------------------------------
(* S3LFS.track_interleaved. *)

\* Phase 1: the files the pattern selects in the working tree; none ends
\* the call.
TrackStart(p, pat) ==
    LET files == resolve_filesystem_paths(fs, pat) IN
    /\ IF files = {}
       THEN /\ main[p].pc = "idle"
            /\ calls < MaxCalls
            /\ calls' = calls + 1
            /\ End(p, "ok")
            /\ hist' = [hist EXCEPT ![p] = NoHist]
       ELSE Begin(p, "track", pat, "creds", files, TRUE)
    /\ UNCHANGED <<fs, store, disk, mem, lock, shutdown, edits, faults, tmp,
                   query, answer>>

\* A probe whose failure is ignored: the tasks are submitted all the same.
SubmitUnprobed(p) ==
    /\ At(p, "track", "creds")
    /\ \/ /\ Submit(p, main[p].files, "hash")
          /\ main' = [main EXCEPT ![p].pc = "collect"]
          /\ UNCHANGED <<faults, hist>>
       \/ /\ Fault
          /\ Submit(p, main[p].files, "hash")
          /\ main' = [main EXCEPT ![p].pc = "collect"]
          /\ UNCHANGED hist
    /\ UNCHANGED <<fs, store, disk, mem, lock, shutdown, calls, edits, tmp,
                   query, answer>>

\* test_s3_credentials (a failed probe raises), then the submission of one
\* _hash_and_upload_worker per file.
TrackSubmit(p) ==
    /\ At(p, "track", "creds")
    /\ \/ /\ Submit(p, main[p].files, "hash")
          /\ main' = [main EXCEPT ![p].pc = "collect"]
          /\ UNCHANGED <<faults, hist>>
       \/ /\ Fault
          /\ End(p, "error")
          /\ hist' = [hist EXCEPT ![p] = NoHist]
    /\ UNCHANGED <<fs, store, disk, mem, lock, shutdown, calls, edits, tmp,
                   query, answer>>

-----------------------------------------------------------------------------
(* S3LFS._hash_and_upload_worker, one action per file read, lock step and  *)
(* store call.                                                             *)

\* current_hash = self.hash_file(file_path); a missing file raises.
UploadWorkerHash(p, f) ==
    /\ AtTask(p, f, "hash")
    /\ SetTask(p, f, IF fs[f] = Absent
                     THEN [task[p][f] EXCEPT !.pc = "failed"]
                     ELSE [task[p][f] EXCEPT !.pc = "lock",
                                             !.hash = hash_file(fs[f])])
    /\ UNCHANGED <<fs, store, disk, mem, lock, main, shutdown, calls, edits,
                   faults, hist, tmp, query, answer>>

UploadWorkerLock(p, f) ==
    /\ AtTask(p, f, "lock")
    /\ Acquire(Worker(p, f))
    /\ SetTask(p, f, [task[p][f] EXCEPT !.pc = "read"])
    /\ UNCHANGED <<fs, store, disk, mem, main, shutdown, calls, edits, faults,
                   hist, tmp,
                   query, answer>>

\* A worker that finds no stored digest, whatever the manifest holds.
StoredHashMissing(p, f) == None

\* The digest the worker compares with: self.manifest["files"].get(path).
StoredHash(p, f) == mem[p][f]

\* stored_hash is read in the locked section; equal digests end the task
\* with "not uploaded".
UploadWorkerRead(p, f) ==
    /\ AtTask(p, f, "read")
    /\ Release(Worker(p, f))
    /\ SetTask(p, f, IF task[p][f].hash = StoredHash(p, f)
                     THEN [task[p][f] EXCEPT !.pc = "done"]
                     ELSE [task[p][f] EXCEPT !.pc = "stat"])
    /\ UNCHANGED <<fs, store, disk, mem, main, shutdown, calls, edits, faults,
                   hist, tmp,
                   query, answer>>

\* file_size = Path(file_path).stat().st_size; a missing file raises.
UploadWorkerStat(p, f) ==
    /\ AtTask(p, f, "stat")
    /\ SetTask(p, f, IF fs[f] = Absent
                     THEN [task[p][f] EXCEPT !.pc = "failed"]
                     ELSE [task[p][f] EXCEPT !.pc = "exists"])
    /\ UNCHANGED <<fs, store, disk, mem, lock, main, shutdown, calls, edits,
                   faults, hist, tmp, query, answer>>

(* S3LFS.upload with needs_immediate_update=False, as the worker calls it. *)

\* "if not file_path.exists(): print(...); return": the worker then reports
\* the file as uploaded.
UploadExists(p, f) ==
    /\ AtTask(p, f, "exists")
    /\ SetTask(p, f, IF fs[f] = Absent
                     THEN [task[p][f] EXCEPT !.pc = "done", !.uploaded = TRUE]
                     ELSE [task[p][f] EXCEPT !.pc = "uhash"])
    /\ UNCHANGED <<fs, store, disk, mem, lock, main, shutdown, calls, edits,
                   faults, hist, tmp, query, answer>>

\* file_hash = self.hash_file(file_path): the digest of the key.
UploadHash(p, f) ==
    /\ AtTask(p, f, "uhash")
    /\ SetTask(p, f, IF fs[f] = Absent
                     THEN [task[p][f] EXCEPT !.pc = "failed"]
                     ELSE [task[p][f] EXCEPT !.pc = "compress",
                                             !.fhash = hash_file(fs[f])])
    /\ UNCHANGED <<fs, store, disk, mem, lock, main, shutdown, calls, edits,
                   faults, hist, tmp, query, answer>>

\* compressed_path = self.compress_file(file_path)
UploadCompress(p, f) ==
    /\ AtTask(p, f, "compress")
    /\ SetTask(p, f, IF fs[f] = Absent
                     THEN [task[p][f] EXCEPT !.pc = "failed"]
                     ELSE [task[p][f] EXCEPT !.pc = "head",
                                             !.blob = compress_file(fs[f])])
    /\ UNCHANGED <<fs, store, disk, mem, lock, main, shutdown, calls, edits,
                   faults, hist, tmp, query, answer>>

\* An upload without the probe's comparison: every blob is put.
HeadBlind(p, f) ==
    /\ AtTask(p, f, "head")
    /\ \/ /\ SetTask(p, f, [task[p][f] EXCEPT !.pc = "put"])
          /\ UNCHANGED faults
       \/ /\ Fault
          /\ Retry(p, f, "exists")
    /\ UNCHANGED <<fs, store, disk, mem, lock, main, shutdown, calls, edits,
                   hist, tmp,
                   query, answer>>

\* head_object: an ETag equal to the local MD5 skips the PUT; a 404 and a
\* different ETag go on to it; any other error is raised (and retried).
UploadHead(p, f) ==
    /\ AtTask(p, f, "head")
    /\ LET key == s3_key(task[p][f].fhash, f) IN
       \/ /\ store[key] # NoObject
          /\ md5(store[key]) = md5(task[p][f].blob)
          /\ SetTask(p, f, [task[p][f] EXCEPT !.pc = "done",
                                              !.uploaded = TRUE])
          /\ UNCHANGED faults
       \/ /\ store[key] = NoObject \/ md5(store[key]) # md5(task[p][f].blob)
          /\ SetTask(p, f, [task[p][f] EXCEPT !.pc = "put"])
          /\ UNCHANGED faults
       \/ /\ Fault
          /\ Retry(p, f, "exists")
    /\ UNCHANGED <<fs, store, disk, mem, lock, main, shutdown, calls, edits,
                   hist, tmp,
                   query, answer>>

\* upload_fileobj: the PUT of the compressed blob under the key.
UploadPut(p, f) ==
    /\ AtTask(p, f, "put")
    /\ \/ /\ store' = [store EXCEPT ![s3_key(task[p][f].fhash, f)] =
                                        task[p][f].blob]
          /\ SetTask(p, f, [task[p][f] EXCEPT !.pc = "done",
                                              !.uploaded = TRUE])
          /\ UNCHANGED faults
       \/ /\ Fault
          /\ Retry(p, f, "exists")
          /\ UNCHANGED store
    /\ UNCHANGED <<fs, disk, mem, lock, main, shutdown, calls, edits, hist,
                   tmp,
                   query, answer>>

-----------------------------------------------------------------------------
(* The calling thread of track_interleaved: the as_completed loop, the     *)
(* executor's exit and the commit.                                         *)

\* One turn of the as_completed loop on a finished task.  "if
\* self._shutdown_requested: ... return" comes first; then future.result():
\* the pair of a task that uploaded joins files_uploaded, the error of a
\* failed task is raised again.  The return, the raise and the end of the
\* loop all leave the "with ThreadPoolExecutor" block.
TrackCollect(p, f) ==
    /\ At(p, "track", "collect")
    /\ f \in main[p].files \ main[p].seen
    /\ task[p][f].pc \in {"done", "failed"}
    /\ main' = IF shutdown[p]
               THEN [main EXCEPT ![p].pc = "drain", ![p].out = "ok"]
               ELSE IF task[p][f].pc = "failed"
               THEN [main EXCEPT ![p].pc = "drain", ![p].out = "error"]
               ELSE [main EXCEPT
                       ![p].pc = IF main[p].seen \cup {f} = main[p].files
                                 THEN "drain" ELSE @,
                       ![p].seen = @ \cup {f},
                       ![p].uploaded = IF task[p][f].uploaded
                                       THEN @ \cup {<<f, task[p][f].hash>>}
                                       ELSE @]
    /\ UNCHANGED <<fs, store, disk, mem, lock, task, shutdown, calls, edits,
                   faults, hist, tmp, query, answer>>

\* What is kept of a track that ends here: nothing when it raises, is
\* cancelled or has run over a tree that was written meanwhile.
Kept(p, out) ==
    IF out = "ok" /\ edits = main[p].e0 /\ ~shutdown[p]
    THEN [hist EXCEPT ![p] =
            [pat |-> main[p].pat,
             snap |-> [f \in Paths |-> IF f \in main[p].files
                                       THEN fs[f] ELSE Absent],
             tree |-> fs]]
    ELSE [hist EXCEPT ![p] = NoHist]

\* An exit of the executor block that goes on to phase 3 with the pairs
\* collected so far, whatever the loop ended with.
LeaveCommitting(p) ==
    /\ At(p, "track", "drain")
    /\ PoolDrained(p)
    /\ IF main[p].uploaded = {}
       THEN End(p, main[p].out) /\ hist' = [hist EXCEPT ![p] = NoHist]
       ELSE /\ main' = [main EXCEPT ![p].pc = "phase3"]
            /\ UNCHANGED <<task, hist>>
    /\ UNCHANGED <<fs, store, disk, mem, lock, shutdown, calls, edits,
                   faults, tmp,
                   query, answer>>

\* The exit of the "with ThreadPoolExecutor" block waits for every task.
\* After a return or a raise the call is over, without a commit; after the
\* loop's end phase 3 follows, which has nothing to do without uploads.
TrackLeave(p) ==
    /\ At(p, "track", "drain")
    /\ PoolDrained(p)
    /\ IF main[p].out # "none"
       THEN End(p, main[p].out) /\ hist' = [hist EXCEPT ![p] = NoHist]
       ELSE IF main[p].uploaded = {}
       THEN End(p, "ok") /\ hist' = Kept(p, "ok")
       ELSE /\ main' = [main EXCEPT ![p].pc = "phase3"]
            /\ UNCHANGED <<task, hist>>
    /\ UNCHANGED <<fs, store, disk, mem, lock, shutdown, calls, edits,
                   faults, tmp,
                   query, answer>>

\* "if files_uploaded:" takes the lock for the commit.
TrackCommitLock(p) ==
    /\ At(p, "track", "phase3")
    /\ Acquire(MainThread(p))
    /\ main' = [main EXCEPT ![p].pc = "commit"]
    /\ UNCHANGED <<fs, store, disk, mem, task, shutdown, calls, edits,
                   faults, hist, tmp, query, answer>>

\* load_manifest() followed by the assignments of the pairs.
Merged(files, pairs) ==
    [f \in Paths |-> IF \E d \in Digests : <<f, d>> \in pairs
                     THEN CHOOSE d \in Digests : <<f, d>> \in pairs
                     ELSE files[f]]

\* A commit that merges into the engine's in-memory map without a reload.
WithoutReload(p) == mem[p]

\* The files map that load_manifest reads in the commit: the manifest file.
load_manifest(p) == disk

\* Phase 3 in the locked section: reload, merge, save_manifest, unlock.
TrackCommit(p) ==
    /\ At(p, "track", "commit")
    /\ LET files == Merged(load_manifest(p), main[p].uploaded) IN
       /\ mem' = [mem EXCEPT ![p] = files]
       /\ disk' = files
    /\ Release(MainThread(p))
    /\ End(p, "ok")
    /\ hist' = Kept(p, "ok")
    /\ UNCHANGED <<fs, store, shutdown, calls, edits, faults, tmp,
                   query, answer>>

-----------------------------------------------------------------------------
(* The environment. *)

\* A file of the working tree is written, created or deleted from outside.
Edit(f, c) ==
    /\ edits < MaxEdits
    /\ fs[f] # c
    /\ fs' = [fs EXCEPT ![f] = c]
    /\ edits' = edits + 1
    /\ UNCHANGED <<store, disk, mem, lock, main, task, shutdown, calls, faults,
                   hist, tmp,
                   query, answer>>

\* self._shutdown_requested = True: the flag is set during a call and stays
\* set.
RequestShutdown(p) ==
    /\ main[p].pc # "idle"
    /\ ~shutdown[p]
    /\ shutdown' = [shutdown EXCEPT ![p] = TRUE]
    /\ UNCHANGED <<fs, store, disk, mem, lock, main, task, calls, edits,
                   faults, hist, tmp, query, answer>>

-----------------------------------------------------------------------------
(* S3LFS.checkout_interleaved. *)

CheckoutStart(p, pat) ==
    /\ Begin(p, "checkout", pat, "resolve_lock", {}, TRUE)
    /\ UNCHANGED <<fs, store, disk, mem, lock, shutdown, edits, faults, tmp,
                   query, answer>>

\* _resolve_manifest_paths enters its locked section.
CheckoutResolveLock(p) ==
    /\ At(p, "checkout", "resolve_lock")
    /\ Acquire(MainThread(p))
    /\ main' = [main EXCEPT ![p].pc = "resolve"]
    /\ UNCHANGED <<fs, store, disk, mem, task, shutdown, calls, edits, faults,
                   hist, tmp,
                   query, answer>>

\* The files map the resolver and download read: self.manifest["files"].
ManifestFiles(p) == mem[p]

\* Phase 1: the manifest entries the pattern selects, each with the digest
\* it has now; none ends the call.
CheckoutResolve(p) ==
    /\ At(p, "checkout", "resolve")
    /\ Release(MainThread(p))
    /\ LET files == resolve_manifest_paths(ManifestFiles(p), main[p].pat) IN
       IF files = {}
       THEN End(p, "ok")
       ELSE /\ main' = [main EXCEPT
                   ![p].pc = "creds", ![p].files = files,
                   ![p].uploaded = {<<f, ManifestFiles(p)[f]>> : f \in files}]
            /\ UNCHANGED task
    /\ UNCHANGED <<fs, store, disk, mem, shutdown, calls, edits, faults, hist,
                   tmp,
                   query, answer>>

\* test_s3_credentials, then one _hash_and_download_worker per entry, each
\* with the expected digest of the resolution.
CheckoutSubmit(p) ==
    /\ At(p, "checkout", "creds")
    /\ \/ /\ Cardinality(main[p].files) <= DEFAULT_THREAD_POOL_SIZE
          /\ task' = [task EXCEPT ![p] =
                [f \in Paths |->
                    IF f \in main[p].files
                    THEN [NoTask EXCEPT
                            !.pc = "dcheck",
                            !.hash = CHOOSE d \in Digests :
                                         <<f, d>> \in main[p].uploaded]
                    ELSE NoTask]]
          /\ main' = [main EXCEPT ![p].pc = "collect"]
          /\ UNCHANGED faults
       \/ /\ Fault
          /\ End(p, "error")
    /\ UNCHANGED <<fs, store, disk, mem, lock, shutdown, calls, edits, hist,
                   tmp,
                   query, answer>>

\* A worker without the test: every entry goes to download.
DownloadUnchecked(p, f) ==
    /\ AtTask(p, f, "dcheck")
    /\ SetTask(p, f, [task[p][f] EXCEPT !.pc = "dlock"])
    /\ UNCHANGED <<fs, store, disk, mem, lock, main, shutdown, calls, edits,
                   faults, hist, tmp, query, answer>>

\* The worker's test: a file that exists with the expected digest needs no
\* download.
DownloadWorkerCheck(p, f) ==
    /\ AtTask(p, f, "dcheck")
    /\ SetTask(p, f, IF fs[f] # Absent /\ hash_file(fs[f]) = task[p][f].hash
                     THEN [task[p][f] EXCEPT !.pc = "done"]
                     ELSE [task[p][f] EXCEPT !.pc = "dlock"])
    /\ UNCHANGED <<fs, store, disk, mem, lock, main, shutdown, calls, edits,
                   faults, hist, tmp, query, answer>>

(* S3LFS.download *)

DownloadLock(p, f) ==
    /\ AtTask(p, f, "dlock")
    /\ Acquire(Worker(p, f))
    /\ SetTask(p, f, [task[p][f] EXCEPT !.pc = "dread"])
    /\ UNCHANGED <<fs, store, disk, mem, main, shutdown, calls, edits, faults,
                   hist, tmp,
                   query, answer>>

\* expected_hash is read in the locked section; no entry returns None and
\* the worker reports a download.
DownloadRead(p, f) ==
    /\ AtTask(p, f, "dread")
    /\ Release(Worker(p, f))
    /\ SetTask(p, f, IF ManifestFiles(p)[f] = None
                     THEN [task[p][f] EXCEPT !.pc = "done", !.uploaded = TRUE]
                     ELSE [task[p][f] EXCEPT !.pc = "dexists",
                                             !.fhash = ManifestFiles(p)[f]])
    /\ UNCHANGED <<fs, store, disk, mem, main, shutdown, calls, edits, faults,
                   hist, tmp,
                   query, answer>>

\* "if file_path.exists(): current_hash = self.hash_file(file_path)": equal
\* digests skip the download; the worker still reports one.
DownloadExists(p, f) ==
    /\ AtTask(p, f, "dexists")
    /\ SetTask(p, f, IF fs[f] # Absent /\ hash_file(fs[f]) = task[p][f].fhash
                     THEN [task[p][f] EXCEPT !.pc = "done", !.uploaded = TRUE]
                     ELSE [task[p][f] EXCEPT !.pc = "dlist"])
    /\ UNCHANGED <<fs, store, disk, mem, lock, main, shutdown, calls, edits,
                   faults, hist, tmp, query, answer>>

\* list_objects_v2 for the chunk keys: the blobs of the model are below the
\* chunk size, so the one key is s3_key; an error of the call is retried.
DownloadList(p, f) ==
    /\ AtTask(p, f, "dlist")
    /\ \/ /\ SetTask(p, f, [task[p][f] EXCEPT !.pc = "dhead"])
          /\ UNCHANGED faults
       \/ /\ Fault
          /\ Retry(p, f, "dlock")
    /\ UNCHANGED <<fs, store, disk, mem, lock, main, shutdown, calls, edits,
                   hist, tmp,
                   query, answer>>

\* head_object: a missing object and every other error are printed and
\* swallowed, and no temporary file is written.
DownloadHead(p, f) ==
    /\ AtTask(p, f, "dhead")
    /\ \/ /\ store[s3_key(task[p][f].fhash, f)] # NoObject
          /\ SetTask(p, f, [task[p][f] EXCEPT !.pc = "dget"])
          /\ UNCHANGED faults
       \/ /\ store[s3_key(task[p][f].fhash, f)] = NoObject
          /\ SetTask(p, f, [task[p][f] EXCEPT !.pc = "dinstall",
                                              !.blob = NoObject])
          /\ UNCHANGED faults
       \/ /\ Fault
          /\ SetTask(p, f, [task[p][f] EXCEPT !.pc = "dinstall",
                                              !.blob = NoObject])
    /\ UNCHANGED <<fs, store, disk, mem, lock, main, shutdown, calls, edits,
                   hist, tmp,
                   query, answer>>

\* What download_fileobj leaves in the temporary file when it fails.
TornBlob == compress_file(Torn)

\* download_fileobj into the temporary file; its errors are swallowed too.
DownloadGet(p, f) ==
    /\ AtTask(p, f, "dget")
    /\ \/ /\ store[s3_key(task[p][f].fhash, f)] # NoObject
          /\ SetTask(p, f, [task[p][f] EXCEPT
                               !.pc = "dinstall",
                               !.blob = store[s3_key(task[p][f].fhash, f)]])
          /\ UNCHANGED faults
       \/ /\ store[s3_key(task[p][f].fhash, f)] = NoObject
          /\ SetTask(p, f, [task[p][f] EXCEPT !.pc = "dinstall",
                                              !.blob = TornBlob])
          /\ UNCHANGED faults
       \/ /\ Fault
          /\ SetTask(p, f, [task[p][f] EXCEPT !.pc = "dinstall",
                                              !.blob = TornBlob])
    /\ UNCHANGED <<fs, store, disk, mem, lock, main, shutdown, calls, edits,
                   hist, tmp,
                   query, answer>>

\* decompress_file(compressed_path, file_path) writes the target in place:
\* without a temporary file it raises and leaves the target alone; from a
\* torn one it writes what it can and raises.
DownloadInstall(p, f) ==
    /\ AtTask(p, f, "dinstall")
    /\ IF task[p][f].blob = NoObject
       THEN /\ SetTask(p, f, [task[p][f] EXCEPT !.pc = "failed"])
            /\ UNCHANGED fs
       ELSE /\ fs' = [fs EXCEPT ![f] = decompress_file(task[p][f].blob)]
            /\ SetTask(p, f, [task[p][f] EXCEPT
                   !.pc = IF task[p][f].blob = TornBlob
                          THEN "failed" ELSE "done",
                   !.uploaded = TRUE])
    /\ UNCHANGED <<store, disk, mem, lock, main, shutdown, calls, edits,
                   faults, hist, tmp, query, answer>>

\* One turn of the as_completed loop on a finished task.  "if
\* self._shutdown_requested: ... break" comes first; then future.result():
\* the error of a failed task is raised again.
CheckoutCollect(p, f) ==
    /\ At(p, "checkout", "collect")
    /\ f \in main[p].files \ main[p].seen
    /\ task[p][f].pc \in {"done", "failed"}
    /\ main' = IF shutdown[p]
               THEN [main EXCEPT ![p].pc = "drain", ![p].out = "ok"]
               ELSE IF task[p][f].pc = "failed"
               THEN [main EXCEPT ![p].pc = "drain", ![p].out = "error"]
               ELSE [main EXCEPT
                       ![p].pc = IF main[p].seen \cup {f} = main[p].files
                                 THEN "drain" ELSE @,
                       ![p].out = "ok",
                       ![p].seen = @ \cup {f}]
    /\ UNCHANGED <<fs, store, disk, mem, lock, task, shutdown, calls, edits,
                   faults, hist, tmp, query, answer>>

\* The end of the loop, the break and the raise leave the "with
\* ThreadPoolExecutor" block, which waits for every task.
CheckoutLeave(p) ==
    /\ At(p, "checkout", "drain")
    /\ PoolDrained(p)
    /\ End(p, main[p].out)
    /\ UNCHANGED <<fs, store, disk, mem, lock, shutdown, calls, edits,
                   faults, hist, tmp, query, answer>>

-----------------------------------------------------------------------------
(* S3LFS.remove_file *)

RemoveStart(p, f, keep_in_s3) ==
    /\ Begin(p, "remove", f, "lock", {}, keep_in_s3)
    /\ UNCHANGED <<fs, store, disk, mem, lock, shutdown, edits, faults, tmp,
                   query, answer>>

RemoveLock(p) ==
    /\ At(p, "remove", "lock")
    /\ Acquire(MainThread(p))
    /\ main' = [main EXCEPT ![p].pc = "update"]
    /\ UNCHANGED <<fs, store, disk, mem, task, shutdown, calls, edits, faults,
                   hist, tmp,
                   query, answer>>

\* The locked section: a path that is not in self.manifest["files"] returns;
\* otherwise its entry is popped and save_manifest writes self.manifest.
RemoveUpdate(p) ==
    /\ At(p, "remove", "update")
    /\ Release(MainThread(p))
    /\ LET f == main[p].pat IN
       IF mem[p][f] = None
       THEN /\ End(p, "ok")
            /\ UNCHANGED <<mem, disk>>
       ELSE /\ mem' = [mem EXCEPT ![p][f] = None]
            /\ disk' = mem'[p]
            /\ IF main[p].keep
               THEN End(p, "ok")
               ELSE /\ main' = [main EXCEPT
                           ![p].pc = "delete",
                           ![p].keys = {s3_key(mem[p][f], f)}]
                    /\ UNCHANGED task
    /\ UNCHANGED <<fs, store, shutdown, calls, edits, faults, hist, tmp,
                   query, answer>>

\* delete_object of the entry's key; an error of the call is raised.
RemoveDelete(p) ==
    /\ At(p, "remove", "delete")
    /\ \/ /\ store' = [k \in Keys |-> IF k \in main[p].keys
                                      THEN NoObject ELSE store[k]]
          /\ End(p, "ok")
          /\ UNCHANGED faults
       \/ /\ Fault
          /\ End(p, "error")
          /\ UNCHANGED store
    /\ UNCHANGED <<fs, disk, mem, lock, shutdown, calls, edits, hist, tmp,
                   query, answer>>

-----------------------------------------------------------------------------
(* S3LFS.cleanup_s3 with force=True *)

CleanupStart(p) ==
    /\ Begin(p, "cleanup", <<>>, "lock", {}, TRUE)
    /\ UNCHANGED <<fs, store, disk, mem, lock, shutdown, edits, faults, tmp,
                   query, answer>>

CleanupLock(p) ==
    /\ At(p, "cleanup", "lock")
    /\ Acquire(MainThread(p))
    /\ main' = [main EXCEPT ![p].pc = "read"]
    /\ UNCHANGED <<fs, store, disk, mem, task, shutdown, calls, edits, faults,
                   hist, tmp,
                   query, answer>>

\* current_hashes = set(self.manifest["files"].values())
CurrentHashes(p) == {mem[p][f] : f \in Paths} \ {None}

CleanupRead(p) ==
    /\ At(p, "cleanup", "read")
    /\ Release(MainThread(p))
    /\ main' = [main EXCEPT ![p].pc = "list", ![p].hashes = CurrentHashes(p)]
    /\ UNCHANGED <<fs, store, disk, mem, task, shutdown, calls, edits, faults,
                   hist, tmp,
                   query, answer>>

\* The listing under the assets prefix: the keys whose digest segment is
\* not in current_hashes; none ends the call.
Unreferenced(objects, hashes) ==
    {k \in Keys : objects[k] # NoObject /\ KeyDigest(k) \notin hashes}

CleanupList(p) ==
    /\ At(p, "cleanup", "list")
    /\ \/ /\ IF Unreferenced(store, main[p].hashes) = {}
             THEN End(p, "ok")
             ELSE /\ main' = [main EXCEPT
                         ![p].pc = "delete",
                         ![p].keys = Unreferenced(store, main[p].hashes)]
                  /\ UNCHANGED task
          /\ UNCHANGED faults
       \/ /\ Fault
          /\ End(p, "error")
    /\ UNCHANGED <<fs, store, disk, mem, lock, shutdown, calls, edits, hist,
                   tmp,
                   query, answer>>

\* "for key in unreferenced_files: delete_object(...)", in listing order; an
\* error of the call is raised and the rest stays.
CleanupDelete(p) ==
    /\ At(p, "cleanup", "delete")
    /\ LET key == CHOOSE k \in main[p].keys :
                      \A o \in main[p].keys : KeyRank(k) <= KeyRank(o)
       IN \/ /\ store' = [store EXCEPT ![key] = NoObject]
             /\ IF main[p].keys = {key}
                THEN End(p, "ok")
                ELSE /\ main' = [main EXCEPT ![p].keys = @ \ {key}]
                     /\ UNCHANGED task
             /\ UNCHANGED faults
          \/ /\ Fault
             /\ End(p, "error")
             /\ UNCHANGED store
    /\ UNCHANGED <<fs, disk, mem, lock, shutdown, calls, edits, hist, tmp,
                   query, answer>>

-----------------------------------------------------------------------------
(* S3LFS.track_modified_files and S3LFS.parallel_upload *)

SweepStart(p) ==
    /\ Begin(p, "sweep", <<>>, "lock", {}, TRUE)
    /\ UNCHANGED <<fs, store, disk, mem, lock, shutdown, edits, faults, tmp,
                   query, answer>>

SweepLock(p) ==
    /\ At(p, "sweep", "lock")
    /\ Acquire(MainThread(p))
    /\ main' = [main EXCEPT ![p].pc = "keys"]
    /\ UNCHANGED <<fs, store, disk, mem, task, shutdown, calls, edits, faults,
                   hist, tmp,
                   query, answer>>

\* files_to_check = list(self.manifest["files"].keys()), then executor.map
\* starts one hash_file per file.
SweepKeys(p) ==
    /\ At(p, "sweep", "keys")
    /\ Release(MainThread(p))
    /\ LET files == {f \in Paths : mem[p][f] # None} IN
       /\ main' = [main EXCEPT ![p].pc = "hashing", ![p].files = files]
       /\ Submit(p, files, "mhash")
    /\ UNCHANGED <<fs, store, disk, mem, shutdown, calls, edits, faults, hist,
                   tmp,
                   query, answer>>

\* hash_file in the pool; a missing file raises, and the error stays in the
\* result.
SweepHash(p, f) ==
    /\ AtTask(p, f, "mhash")
    /\ SetTask(p, f, IF fs[f] = Absent
                     THEN [task[p][f] EXCEPT !.pc = "failed"]
                     ELSE [task[p][f] EXCEPT !.pc = "done",
                                             !.hash = hash_file(fs[f])])
    /\ UNCHANGED <<fs, store, disk, mem, lock, main, shutdown, calls, edits,
                   faults, hist, tmp, query, answer>>

\* The file of the next result, in the order of files_to_check.
NextResult(p) ==
    CHOOSE f \in main[p].files \ main[p].seen :
        \A o \in main[p].files \ main[p].seen : PathRank(f) <= PathRank(o)

\* After the pool's exit, "for file, current_hash in results": the error of
\* a failed hash is raised here; otherwise the iteration takes the lock.
\* With every result seen, files_to_upload decides between parallel_upload
\* and the end of the call.
SweepNext(p) ==
    /\ At(p, "sweep", "hashing")
    /\ PoolDrained(p)
    /\ IF main[p].seen = main[p].files
       THEN IF main[p].uploaded = {}
            THEN End(p, "ok") /\ UNCHANGED lock
            ELSE /\ main' = [main EXCEPT ![p].pc = "creds"]
                 /\ UNCHANGED <<task, lock>>
       ELSE IF task[p][NextResult(p)].pc = "failed"
            THEN End(p, "error") /\ UNCHANGED lock
            ELSE /\ Acquire(MainThread(p))
                 /\ main' = [main EXCEPT ![p].pc = "compare"]
                 /\ UNCHANGED task
    /\ UNCHANGED <<fs, store, disk, mem, shutdown, calls, edits, faults, hist,
                   tmp,
                   query, answer>>

\* stored_hash = self.manifest.get(file): the lookup is in the manifest's
\* top level, whose keys are "files", "bucket_name" and "repo_prefix".
StoredHashOfSweep(p, f) == None

\* "if current_hash != stored_hash: files_to_upload.append(file)"
SweepCompare(p) ==
    /\ At(p, "sweep", "compare")
    /\ Release(MainThread(p))
    /\ LET f == NextResult(p) IN
       main' = [main EXCEPT
          ![p].pc = "hashing",
          ![p].seen = @ \cup {f},
          ![p].uploaded = IF task[p][f].hash # StoredHashOfSweep(p, f)
                          THEN @ \cup {<<f, task[p][f].hash>>} ELSE @]
    /\ UNCHANGED <<fs, store, disk, mem, task, shutdown, calls, edits, faults,
                   hist, tmp,
                   query, answer>>

\* parallel_upload: test_s3_credentials, then one upload per file with
\* needs_immediate_update=False.
SweepSubmit(p) ==
    /\ At(p, "sweep", "creds")
    /\ \/ /\ LET files == {pr[1] : pr \in main[p].uploaded} IN
             /\ Submit(p, files, "exists")
             /\ main' = [main EXCEPT ![p].pc = "upload", ![p].files = files]
          /\ UNCHANGED faults
       \/ /\ Fault
          /\ End(p, "error")
    /\ UNCHANGED <<fs, store, disk, mem, lock, shutdown, calls, edits, hist,
                   tmp,
                   query, answer>>

\* The as_completed loop of parallel_upload prints the errors of the
\* uploads and goes on; after the pool's exit the caller takes the lock.
SweepSaveLock(p) ==
    /\ At(p, "sweep", "upload")
    /\ PoolDrained(p)
    /\ Acquire(MainThread(p))
    /\ main' = [main EXCEPT ![p].pc = "save"]
    /\ UNCHANGED <<fs, store, disk, mem, task, shutdown, calls, edits, faults,
                   hist, tmp,
                   query, answer>>

\* "with self._lock_context(): self.save_manifest()": self.manifest as it
\* is goes to the manifest file.
SweepSave(p) ==
    /\ At(p, "sweep", "save")
    /\ Release(MainThread(p))
    /\ disk' = mem[p]
    /\ End(p, "ok")
    /\ UNCHANGED <<fs, store, mem, shutdown, calls, edits, faults, hist, tmp,
                   query, answer>>

-----------------------------------------------------------------------------
(* S3LFS.save_manifest step by step: open the temporary file, json.dump     *)
(* into it, replace the manifest file with it; an exception of any step is   *)
(* caught, the temporary file is unlinked and save_manifest returns.         *)

\* The temporary file does not exist; a file that holds part of a document.
NoFile == [f \in Paths |-> <<"no file">>]
Partial == [f \in Paths |-> <<"partial">>]
Complete(doc) == \A f \in Paths : doc[f] \in Digests \cup {None}

\* A cleanup that leaves the temporary file where it is.
Leftover(file) == file

\* temp_file.unlink() when temp_file.exists(): the file after it.
unlink(file) == NoFile

\* remove_file's locked section up to its call of save_manifest: a path that
\* is not in self.manifest["files"] returns, otherwise its entry is popped.
RemovePop(p) ==
    /\ At(p, "remove", "update")
    /\ LET f == main[p].pat IN
       IF mem[p][f] = None
       THEN /\ Release(MainThread(p))
            /\ End(p, "ok")
            /\ UNCHANGED mem
       ELSE /\ mem' = [mem EXCEPT ![p][f] = None]
            /\ main' = [main EXCEPT
                   ![p].pc = "save_open", ![p].doc0 = disk,
                   ![p].keys = {s3_key(mem[p][f], f)}]
            /\ UNCHANGED <<task, lock>>
    /\ UNCHANGED <<fs, store, disk, shutdown, calls, edits, faults, hist, tmp,
                   query, answer>>

\* Phase 3 of track_interleaved up to its call of save_manifest: reload and
\* the assignments of the pairs.
TrackMerge(p) ==
    /\ At(p, "track", "commit")
    /\ mem' = [mem EXCEPT ![p] = Merged(load_manifest(p), main[p].uploaded)]
    /\ main' = [main EXCEPT ![p].pc = "save_open", ![p].doc0 = disk]
    /\ UNCHANGED <<fs, store, disk, lock, task, shutdown, calls, edits,
                   faults, hist, tmp, query, answer>>

\* open(temp_file, "w") creates or truncates the temporary file, or raises.
SaveOpen(p) ==
    /\ main[p].pc = "save_open"
    /\ \/ /\ tmp' = Partial
          /\ main' = [main EXCEPT ![p].pc = "save_dump"]
          /\ UNCHANGED faults
       \/ /\ Fault
          /\ main' = [main EXCEPT ![p].pc = "save_except"]
          /\ UNCHANGED tmp
    /\ UNCHANGED <<fs, store, disk, mem, lock, task, shutdown, calls, edits,
                   hist,
                   query, answer>>

\* json.dump(self.manifest, f) and the close of the file: the whole document
\* is in the temporary file, or the write raises part-way.
SaveDump(p) ==
    /\ main[p].pc = "save_dump"
    /\ \/ /\ tmp' = mem[p]
          /\ main' = [main EXCEPT ![p].pc = "save_replace"]
          /\ UNCHANGED faults
       \/ /\ Fault
          /\ main' = [main EXCEPT ![p].pc = "save_except"]
          /\ UNCHANGED tmp
    /\ UNCHANGED <<fs, store, disk, mem, lock, task, shutdown, calls, edits,
                   hist,
                   query, answer>>

\* temp_file.replace(self.manifest_file): the rename happens as a whole or
\* raises and leaves both files as they are.
SaveReplace(p) ==
    /\ main[p].pc = "save_replace"
    /\ \/ /\ disk' = tmp
          /\ tmp' = NoFile
          /\ main' = [main EXCEPT ![p].pc = "saved", ![p].saved = "ok"]
          /\ UNCHANGED faults
       \/ /\ Fault
          /\ main' = [main EXCEPT ![p].pc = "save_except"]
          /\ UNCHANGED <<disk, tmp>>
    /\ UNCHANGED <<fs, store, mem, lock, task, shutdown, calls, edits, hist,
                   query, answer>>

\* except Exception: the message is printed, the temporary file is unlinked
\* if it exists, and save_manifest returns to its caller.
SaveExcept(p) ==
    /\ main[p].pc = "save_except"
    /\ tmp' = IF tmp # NoFile THEN unlink(tmp) ELSE tmp
    /\ main' = [main EXCEPT ![p].pc = "saved", ![p].saved = "failed"]
    /\ UNCHANGED <<fs, store, disk, mem, lock, task, shutdown, calls, edits,
                   faults, hist,
                   query, answer>>

\* The caller after save_manifest has returned: the locked section ends;
\* remove_file goes on to delete_object unless keep_in_s3, track_interleaved
\* prints its success and returns.
SaveLeave(p) ==
    /\ main[p].pc = "saved"
    /\ Release(MainThread(p))
    /\ IF main[p].kind = "remove" /\ ~main[p].keep
       THEN /\ main' = [main EXCEPT ![p].pc = "delete"]
            /\ UNCHANGED <<task, hist>>
       ELSE /\ End(p, "ok")
            /\ hist' = IF main[p].kind = "track" THEN Kept(p, "ok") ELSE hist
    /\ UNCHANGED <<fs, store, disk, mem, shutdown, calls, edits, faults, tmp,
                   query, answer>>

-----------------------------------------------------------------------------
(* Calls of the resolvers and of _glob_match on their own: a set of paths,  *)
(* the keys of a manifest and the files of a working tree alike, and a      *)
(* pattern.                                                                 *)

DataFTxt == <<"d", "a", "t", "a", "/", "f", ".", "t", "x", "t">>
Data2XTxt == <<"d", "a", "t", "a", "2", "/", "x", ".", "t", "x", "t">>
Data == <<"d", "a", "t", "a">>
Universe ==
    Paths \cup
    {DataFTxt, Data2XTxt, Data,
     \* data/s/f.txt
     <<"d", "a", "t", "a", "/", "s", "/", "f", ".", "t", "x", "t">>,
     \* logs/f.txt
     <<"l", "o", "g", "s", "/", "f", ".", "t", "x", "t">>,
     \* database/f.txt
     <<"d", "a", "t", "a", "b", "a", "s", "e", "/", "f", ".", "t", "x", "t">>,
     \* abc/d.txt
     <<"a", "b", "c", "/", "d", ".", "t", "x", "t">>,
     \* dir/sub/f.txt
     <<"d", "i", "r", "/", "s", "u", "b", "/", "f", ".", "t", "x", "t">>,
     \* database.txt
     <<"d", "a", "t", "a", "b", "a", "s", "e", ".", "t", "x", "t">>}

PatDataStarStarTxt ==
    <<"d", "a", "t", "a", "/", "*", "*", "/", "*", ".", "t", "x", "t">>
PatStarStarAStarTxt == <<"*", "*", "/", "a", "*", ".", "t", "x", "t">>
PlainQueries ==
    {PathA, PatD, Data, DataFTxt,
     \* logs
     <<"l", "o", "g", "s">>,
     \* dir/sub
     <<"d", "i", "r", "/", "s", "u", "b">>}
GlobQueries ==
    {PatDataStarStarTxt, PatStarStarAStarTxt, PatStarStarA,
     \* *
     <<"*">>,
     \* *.txt
     <<"*", ".", "t", "x", "t">>,
     \* dir/*.txt
     <<"d", "i", "r", "/", "*", ".", "t", "x", "t">>,
     \* data/*.txt
     <<"d", "a", "t", "a", "/", "*", ".", "t", "x", "t">>,
     \* ?bc/d.txt
     <<"?", "b", "c", "/", "d", ".", "t", "x", "t">>}
QueryPatterns == PlainQueries \cup GlobQueries

\* The number of paths of a call.
MaxKeys == 3

\* The files of a working tree: no file is a directory of another.
TreeLike(keys) == \A f, g \in keys : ~startswith(g, f \o <<"/">>)

Queries ==
    {[keys |-> K, pat |-> P] :
        K \in {J \in SUBSET Universe : Cardinality(J) <= MaxKeys /\ TreeLike(J)},
        P \in QueryPatterns}

NoQuery == [keys |-> {}, pat |-> <<>>]
Unanswered == {<<"unanswered">>}
NoAnswer == [manifest |-> Unanswered, filesystem |-> Unanswered,
             globbed |-> Unanswered, files |-> Unanswered,
             objects |-> Unanswered]

\* _resolve_manifest_paths(pattern) on a manifest with these keys.
ResolveManifest ==
    /\ query # NoQuery
    /\ answer.manifest = Unanswered
    /\ answer' = [answer EXCEPT
           !.manifest = ManifestMatches(query.keys, query.pat)]
    /\ UNCHANGED <<fs, store, disk, mem, lock, main, task, shutdown, calls,
                   edits, faults, hist, tmp, query>>

\* _resolve_filesystem_paths(pattern) on a working tree with these files.
ResolveFilesystem ==
    /\ query # NoQuery
    /\ answer.filesystem = Unanswered
    /\ answer' = [answer EXCEPT
           !.filesystem = FilesystemMatches(query.keys, query.pat)]
    /\ UNCHANGED <<fs, store, disk, mem, lock, main, task, shutdown, calls,
                   edits, faults, hist, tmp, query>>

\* remove_subtree(directory, keep_in_s3) on a manifest with these keys and a
\* store with the object of each, when no store call fails: the keys that
\* start with directory_str are popped, and the object of each is deleted
\* unless keep_in_s3.  What is left: the keys of the manifest that is saved,
\* and the paths whose objects are in the store.
FilesToRemove(keys, directory_str) ==
    {path \in keys : startswith(path, directory_str)}

RemoveSubtree(keep_in_s3) ==
    /\ query # NoQuery
    /\ answer.files = Unanswered
    /\ LET files_to_remove == FilesToRemove(query.keys, query.pat) IN
       answer' = [answer EXCEPT
           !.files = query.keys \ files_to_remove,
           !.objects = IF keep_in_s3 THEN query.keys
                       ELSE query.keys \ files_to_remove]
    /\ UNCHANGED <<fs, store, disk, mem, lock, main, task, shutdown, calls,
                   edits, faults, hist, tmp, query>>

\* _glob_match(file_path, pattern) for every path there is.
GlobMatch ==
    /\ query # NoQuery
    /\ answer.globbed = Unanswered
    /\ answer' = [answer EXCEPT
           !.globbed = {f \in Universe : glob_match(f, query.pat)}]
    /\ UNCHANGED <<fs, store, disk, mem, lock, main, task, shutdown, calls,
                   edits, faults, hist, tmp, query>>

-----------------------------------------------------------------------------
(* The specifications. *)

\* The state after construction of the engines, in a repository with some
\* history: "a" was tracked with content 2 and has content 1 since, "d/a"
\* has never been tracked.  Every engine has loaded the manifest file.
TrackedBefore == [f \in Paths |-> IF f = PathA THEN hash_file(2) ELSE None]

Init ==
    /\ fs = [f \in Paths |-> 1]
    /\ store = [k \in Keys |-> IF k = s3_key(hash_file(2), PathA)
                               THEN compress_file(2) ELSE NoObject]
    /\ disk = TrackedBefore
    /\ mem = [p \in Procs |-> TrackedBefore]
    /\ lock = NoOne
    /\ main = [p \in Procs |-> IdleMain]
    /\ task = [p \in Procs |-> NoTasks]
    /\ shutdown = [p \in Procs |-> FALSE]
    /\ calls = 0
    /\ edits = 0
    /\ faults = 0
    /\ hist = [p \in Procs |-> NoHist]
    /\ tmp = NoFile
    /\ query = NoQuery
    /\ answer = NoAnswer

\* The same state with the budget of failing store calls used up: every
\* store call returns what the store holds.
InitCalm ==
    /\ fs = [f \in Paths |-> 1]
    /\ store = [k \in Keys |-> IF k = s3_key(hash_file(2), PathA)
                               THEN compress_file(2) ELSE NoObject]
    /\ disk = TrackedBefore
    /\ mem = [p \in Procs |-> TrackedBefore]
    /\ lock = NoOne
    /\ main = [p \in Procs |-> IdleMain]
    /\ task = [p \in Procs |-> NoTasks]
    /\ shutdown = [p \in Procs |-> FALSE]
    /\ calls = 0
    /\ edits = 0
    /\ faults = MaxFaults
    /\ hist = [p \in Procs |-> NoHist]
    /\ tmp = NoFile
    /\ query = NoQuery
    /\ answer = NoAnswer

Workers(p) ==
    \E f \in Paths :
        \/ UploadWorkerHash(p, f)
        \/ UploadWorkerLock(p, f)
        \/ UploadWorkerRead(p, f)
        \/ UploadWorkerStat(p, f)
        \/ UploadExists(p, f)
        \/ UploadHash(p, f)
        \/ UploadCompress(p, f)
        \/ UploadHead(p, f)
        \/ UploadPut(p, f)

Track(p, pats) ==
    \/ \E pat \in pats : TrackStart(p, pat)
    \/ TrackSubmit(p)
    \/ Workers(p)
    \/ \E f \in Paths : TrackCollect(p, f)
    \/ TrackLeave(p)
    \/ TrackCommitLock(p)
    \/ TrackCommit(p)

Checkout(p, pats) ==
    \/ \E pat \in pats : CheckoutStart(p, pat)
    \/ CheckoutResolveLock(p)
    \/ CheckoutResolve(p)
    \/ CheckoutSubmit(p)
    \/ \E f \in Paths :
          \/ DownloadWorkerCheck(p, f)
          \/ DownloadLock(p, f)
          \/ DownloadRead(p, f)
          \/ DownloadExists(p, f)
          \/ DownloadList(p, f)
          \/ DownloadHead(p, f)
          \/ DownloadGet(p, f)
          \/ DownloadInstall(p, f)
          \/ CheckoutCollect(p, f)
    \/ CheckoutLeave(p)

Remove(p) ==
    \/ \E f \in Paths, keep_in_s3 \in BOOLEAN : RemoveStart(p, f, keep_in_s3)
    \/ RemoveLock(p)
    \/ RemoveUpdate(p)
    \/ RemoveDelete(p)

Cleanup(p) ==
    \/ CleanupStart(p)
    \/ CleanupLock(p)
    \/ CleanupRead(p)
    \/ CleanupList(p)
    \/ CleanupDelete(p)

Sweep(p) ==
    \/ SweepStart(p)
    \/ SweepLock(p)
    \/ SweepKeys(p)
    \/ \E f \in Paths : SweepHash(p, f)
    \/ SweepNext(p)
    \/ SweepCompare(p)
    \/ SweepSubmit(p)
    \/ SweepSaveLock(p)
    \/ SweepSave(p)

Env ==
    \/ \E f \in Paths, c \in Contents \cup {Absent} : Edit(f, c)
    \/ \E p \in Procs : RequestShutdown(p)

Engine(p, pats) ==
    \/ Track(p, pats)
    \/ Checkout(p, pats)
    \/ Remove(p)
    \/ Cleanup(p)
    \/ Sweep(p)

Next == (\E p \in Procs : Engine(p, Patterns)) \/ Env
Spec == Init /\ [][Next]_vars

\* One engine that tracks and checks out, over a working tree that is
\* written from outside.
Edits == \E f \in Paths, c \in Contents \cup {Absent} : Edit(f, c)
NextSolo == Track("A", Patterns) \/ Checkout("A", Patterns) \/ Edits
SpecSolo == Init /\ [][NextSolo]_vars

\* One engine that tracks, and the cancel flag.
NextCancel == Track("A", Patterns) \/ (\E p \in Procs : RequestShutdown(p))
SpecCancel == Init /\ [][NextCancel]_vars

\* One engine that tracks and sweeps, over a working tree that is written
\* from outside.
NextSweep == Track("A", Patterns) \/ Sweep("A") \/ Edits
SpecSweep == Init /\ [][NextSweep]_vars

\* Two engines on one manifest, one lock and one store, with patterns that
\* select disjoint files.
PlainPatterns == {PathA, PatD}
NextConc ==
    \E p \in Procs :
        \/ Track(p, PlainPatterns)
        \/ Checkout(p, PlainPatterns)
        \/ Remove(p)
        \/ Cleanup(p)
SpecConc == Init /\ [][NextConc]_vars

\* The same with store calls that do not fail, under the scheduling of
\* threads and processes: while a step can be taken, one is taken.
FairConc == InitCalm /\ [][NextConc]_vars /\ WF_vars(NextConc)

\* Two engines that remove, one of which also tracks, with save_manifest
\* taken step by step and steps of it that fail.
Save(p) ==
    \/ SaveOpen(p)
    \/ SaveDump(p)
    \/ SaveReplace(p)
    \/ SaveExcept(p)
    \/ SaveLeave(p)

TrackSaving(p, pats) ==
    \/ \E pat \in pats : TrackStart(p, pat)
    \/ TrackSubmit(p)
    \/ Workers(p)
    \/ \E f \in Paths : TrackCollect(p, f)
    \/ TrackLeave(p)
    \/ TrackCommitLock(p)
    \/ TrackMerge(p)

RemoveSaving(p) ==
    \/ \E f \in Paths, keep_in_s3 \in BOOLEAN : RemoveStart(p, f, keep_in_s3)
    \/ RemoveLock(p)
    \/ RemovePop(p)
    \/ RemoveDelete(p)

NextSave ==
    \/ TrackSaving("A", PlainPatterns)
    \/ \E p \in Procs : RemoveSaving(p) \/ Save(p)
SpecSave == Init /\ [][NextSave]_vars


\* The resolvers and _glob_match called on their own, for every set of
\* paths and every pattern of the model.
InitResolve ==
    /\ fs = [f \in Paths |-> 1]
    /\ store = [k \in Keys |-> IF k = s3_key(hash_file(2), PathA)
                               THEN compress_file(2) ELSE NoObject]
    /\ disk = TrackedBefore
    /\ mem = [p \in Procs |-> TrackedBefore]
    /\ lock = NoOne
    /\ main = [p \in Procs |-> IdleMain]
    /\ task = [p \in Procs |-> NoTasks]
    /\ shutdown = [p \in Procs |-> FALSE]
    /\ calls = 0
    /\ edits = 0
    /\ faults = 0
    /\ hist = [p \in Procs |-> NoHist]
    /\ tmp = NoFile
    /\ query \in Queries
    /\ answer = NoAnswer
NextResolve ==
    \/ ResolveManifest
    \/ ResolveFilesystem
    \/ GlobMatch
    \/ \E keep_in_s3 \in BOOLEAN : RemoveSubtree(keep_in_s3)
SpecResolve == InitResolve /\ [][NextResolve]_vars


\* Two engines that remove, in a repository where "a" was tracked with a
\* content that upload has stored as chunk objects and "d/a" with one that
\* it has stored as a single object.
TrackedChunked ==
    [f \in Paths |-> IF f = PathA THEN hash_file(Big) ELSE hash_file(2)]

InitChunked ==
    /\ fs = [f \in Paths |-> IF f = PathA THEN Big ELSE 2]
    /\ store = [k \in Keys |->
                   IF k = s3_key(hash_file(2), PathDA) THEN compress_file(2)
                   ELSE IF \E i \in Chunks :
                               k = chunk_key(s3_key(hash_file(Big), PathA), i)
                        THEN chunk(compress_file(Big), k[4])
                        ELSE NoObject]
    /\ disk = TrackedChunked
    /\ mem = [p \in Procs |-> TrackedChunked]
    /\ lock = NoOne
    /\ main = [p \in Procs |-> IdleMain]
    /\ task = [p \in Procs |-> NoTasks]
    /\ shutdown = [p \in Procs |-> FALSE]
    /\ calls = 0
    /\ edits = 0
    /\ faults = 0
    /\ hist = [p \in Procs |-> NoHist]
    /\ tmp = NoFile
    /\ query = NoQuery
    /\ answer = NoAnswer
NextChunk == \E p \in Procs : Remove(p)
SpecChunk == InitChunked /\ [][NextChunk]_vars


-----------------------------------------------------------------------------
(***************************************************************************)
(* Chunking at the level of bytes: upload of one file by an engine with a  *)
(* given chunk_size into an empty store, and the download of it, when no   *)
(* store call fails.  A file and a blob are sequences of bytes.            *)
(***************************************************************************)
Bytes == {1, 2}
MaxData == 2
MaxChunkSize == 4
Datas == UNION {[1..n -> Bytes] : n \in 0..MaxData}

\* gzip of compress_file and decompress_file at the level of bytes: a magic
\* byte, the payload and a trailer with the payload's length; anything else
\* does not decompress.
gzip_compress(data) == <<31>> \o data \o <<Len(data)>>
is_gzip(blob) ==
    /\ Len(blob) >= 2
    /\ blob[1] = 31
    /\ blob[Len(blob)] = Len(blob) - 2
gzip_decompress(blob) == SubSeq(blob, 2, Len(blob) - 1)

\* f.read(n): up to n bytes from the front, all of them when n is negative.
read(bytes, n) ==
    IF n < 0 \/ n >= Len(bytes) THEN bytes ELSE SubSeq(bytes, 1, n)

\* split_file: chunks of chunk_size - 1 bytes, read until a read is empty.
RECURSIVE split_file(_, _)
split_file(bytes, chunk_size) ==
    LET chunk_data == read(bytes, chunk_size - 1) IN
    IF chunk_data = <<>>
    THEN <<>>
    ELSE <<chunk_data>>
         \o split_file(SubSeq(bytes, Len(chunk_data) + 1, Len(bytes)),
                       chunk_size)

\* merge_files: the chunk files copied one after another.
RECURSIVE merge_files(_)
merge_files(chunk_paths) ==
    IF chunk_paths = <<>> THEN <<>>
    ELSE Head(chunk_paths) \o merge_files(Tail(chunk_paths))

\* What a transfer has done so far.  single is the object under s3_key (a
\* sequence of at most one blob), chunks[i + 1] the object under
\* f"{s3_key}.chunk{i}".
NoTransfer ==
    [step |-> "new", chunked |-> FALSE, single |-> <<>>, chunks |-> <<>>,
     split |-> FALSE, merged |-> <<>>, raised |-> FALSE, file |-> <<>>]
Transfers == [data : Datas, chunk_size : 0..MaxChunkSize]

\* upload(file_path): compress, split when the blob is larger than
\* chunk_size, and put each path under its key.
ChunkUpload ==
    /\ answer.step = "new"
    /\ LET compressed == gzip_compress(query.data)
           chunked == Len(compressed) > query.chunk_size
           paths == IF chunked
                    THEN split_file(compressed, query.chunk_size)
                    ELSE <<compressed>>
       IN answer' = [answer EXCEPT
              !.step = "uploaded",
              !.chunked = chunked,
              !.single = IF chunked THEN <<>> ELSE paths,
              !.chunks = IF chunked THEN paths ELSE <<>>]
    /\ UNCHANGED <<fs, store, disk, mem, lock, main, task, shutdown, calls,
                   edits, faults, hist, tmp, query>>

\* download(file_path) of the file after it was deleted: as many chunk keys
\* as list_objects_v2 lists under f"{s3_key}.chunk", named by index, or the
\* one key s3_key; each object that exists is fetched; the chunks are merged
\* in index order; the result is decompressed into the file.  A key without
\* an object leaves no temporary file, and decompress_file raises.
ChunkDownload ==
    /\ answer.step = "uploaded"
    /\ LET chunk_keys == 1..Len(answer.chunks)
           fetched == IF chunk_keys # {}
                      THEN <<merge_files(answer.chunks)>>
                      ELSE answer.single
           raised == fetched = <<>> \/ ~is_gzip(fetched[1])
       IN answer' = [answer EXCEPT
              !.step = "downloaded",
              !.raised = raised,
              !.file = IF raised THEN <<>> ELSE gzip_decompress(fetched[1])]
    /\ UNCHANGED <<fs, store, disk, mem, lock, main, task, shutdown, calls,
                   edits, faults, hist, tmp, query>>

\* split_file of the blob and merge_files of its chunks in index order.
SplitAndMerge ==
    /\ ~answer.split
    /\ answer' = [answer EXCEPT
           !.split = TRUE,
           !.merged = merge_files(
               split_file(gzip_compress(query.data), query.chunk_size))]
    /\ UNCHANGED <<fs, store, disk, mem, lock, main, task, shutdown, calls,
                   edits, faults, hist, tmp, query>>

InitSplit ==
    /\ fs = [f \in Paths |-> 1]
    /\ store = [k \in Keys |-> NoObject]
    /\ disk = EmptyFiles
    /\ mem = [p \in Procs |-> EmptyFiles]
    /\ lock = NoOne
    /\ main = [p \in Procs |-> IdleMain]
    /\ task = [p \in Procs |-> NoTasks]
    /\ shutdown = [p \in Procs |-> FALSE]
    /\ calls = 0
    /\ edits = 0
    /\ faults = 0
    /\ hist = [p \in Procs |-> NoHist]
    /\ tmp = NoFile
    /\ query \in Transfers
    /\ answer = NoTransfer
NextSplit ==
    \/ ChunkUpload
    \/ ChunkDownload
    \/ SplitAndMerge
SpecSplit == InitSplit /\ [][NextSplit]_vars


-----------------------------------------------------------------------------
(***************************************************************************)
(* The retry decorator around one call of upload or download, with the     *)
(* errors a store call of the function can fail with.  An error is named   *)
(* by its exception class or, for a ClientError, by its error code.        *)
(***************************************************************************)
BotoCoreErrors ==
    {"NoCredentialsError", "PartialCredentialsError",
     "EndpointConnectionError"}
ClientErrors == {"InvalidAccessKeyId", "InternalError", "404"}
StoreErrors == BotoCoreErrors \cup ClientErrors \cup {"SSLError"}

\* The errors test_s3_credentials reports as credentials errors, and the
\* errors of the network, of TLS and of the server.
CredentialsErrors ==
    {"NoCredentialsError", "PartialCredentialsError", "InvalidAccessKeyId"}
TransientErrors == {"EndpointConnectionError", "InternalError", "SSLError"}

\* "except exceptions" of @retry(3, (BotoCoreError, ClientError, SSLError)).
Retried(exc) == exc \in BotoCoreErrors \cup ClientErrors \cup {"SSLError"}

StoreCalls(func) ==
    IF func = "upload"
    THEN {"head_object", "upload_fileobj"}
    ELSE {"list_objects_v2", "head_object", "download_fileobj"}

\* What the function raises when its store call fails with exc, "return"
\* when it goes on and returns.  upload takes a 404 of head_object as "no
\* such object" and lets every other error out.  download lets an error of
\* list_objects_v2 out and swallows one of head_object or download_fileobj:
\* decompress_file then raises on the temporary file that is missing or cut
\* short.
Raises(func, call, exc) ==
    IF func = "upload"
    THEN IF call = "head_object" /\ exc = "404" THEN "return" ELSE exc
    ELSE IF call = "list_objects_v2" THEN exc
    ELSE IF call = "head_object" THEN "FileNotFoundError"
    ELSE "CalledProcessError"

\* The state of one decorated call: attempt is the decorator's counter,
\* invocations the number of times the function has run, errs the errors
\* its store calls have failed with, out what the caller gets.
NoRetry ==
    [pc |-> "call", attempt |-> 0, invocations |-> 0, errs |-> {},
     out |-> "none"]

\* newfn after one run of the function that raised this ("return": none).
newfn(raised) ==
    LET ran == [answer EXCEPT !.invocations = @ + 1] IN
    IF raised = "return"
    THEN [ran EXCEPT !.pc = "returned", !.out = "return"]
    ELSE IF answer.attempt < RETRY_TIMES /\ Retried(raised)
    THEN [ran EXCEPT !.attempt = @ + 1]
    ELSE [ran EXCEPT !.pc = "raised", !.out = raised]

\* A run of the function in which no store call fails.
FuncRuns ==
    /\ answer.pc = "call"
    /\ answer' = newfn("return")
    /\ UNCHANGED <<fs, store, disk, mem, lock, main, task, shutdown, calls,
                   edits, faults, hist, tmp, query>>

\* A run of the function in which this store call fails with this error.
FuncFails(call, exc) ==
    /\ answer.pc = "call"
    /\ call \in StoreCalls(query.func)
    /\ LET raised == Raises(query.func, call, exc) IN
       answer' = [newfn(raised) EXCEPT
           !.errs = IF raised = "return" THEN @ ELSE @ \cup {exc}]
    /\ UNCHANGED <<fs, store, disk, mem, lock, main, task, shutdown, calls,
                   edits, faults, hist, tmp, query>>

InitRetry ==
    /\ fs = [f \in Paths |-> 1]
    /\ store = [k \in Keys |-> NoObject]
    /\ disk = EmptyFiles
    /\ mem = [p \in Procs |-> EmptyFiles]
    /\ lock = NoOne
    /\ main = [p \in Procs |-> IdleMain]
    /\ task = [p \in Procs |-> NoTasks]
    /\ shutdown = [p \in Procs |-> FALSE]
    /\ calls = 0
    /\ edits = 0
    /\ faults = 0
    /\ hist = [p \in Procs |-> NoHist]
    /\ tmp = NoFile
    /\ query \in {[func |-> func] : func \in {"upload", "download"}}
    /\ answer = NoRetry
NextRetry ==
    \/ FuncRuns
    \/ \E call \in {"list_objects_v2", "head_object", "upload_fileobj",
                    "download_fileobj"}, exc \in StoreErrors :
           FuncFails(call, exc)
SpecRetry == InitRetry /\ [][NextRetry]_vars


-----------------------------------------------------------------------------
(* S3LFS.remove_subtree, one action per locked section and per file. *)

SubtreeStart(p, directory_str, keep_in_s3) ==
    /\ Begin(p, "subtree", directory_str, "lock", {}, keep_in_s3)
    /\ UNCHANGED <<fs, store, disk, mem, lock, shutdown, edits, faults, tmp,
                   query, answer>>

SubtreeLock(p) ==
    /\ At(p, "subtree", "lock")
    /\ Acquire(MainThread(p))
    /\ main' = [main EXCEPT ![p].pc = "select"]
    /\ UNCHANGED <<fs, store, disk, mem, task, shutdown, calls, edits, faults,
                   hist, tmp, query, answer>>

\* The first locked section: files_to_remove are the keys of
\* self.manifest["files"] that start with directory_str; none returns.
SubtreeSelect(p) ==
    /\ At(p, "subtree", "select")
    /\ Release(MainThread(p))
    /\ LET files_to_remove ==
               FilesToRemove({f \in Paths : mem[p][f] # None}, main[p].pat)
       IN IF files_to_remove = {}
          THEN End(p, "ok")
          ELSE /\ main' = [main EXCEPT ![p].pc = "pop",
                                       ![p].files = files_to_remove]
               /\ UNCHANGED task
    /\ UNCHANGED <<fs, store, disk, mem, shutdown, calls, edits, faults, hist,
                   tmp, query, answer>>

\* One turn of "for file_path in files_to_remove", after the lock was
\* released: the entry is popped from self.manifest["files"], and without
\* keep_in_s3 delete_object is called on the entry's key; an error of the
\* call is raised, with the entries popped so far gone from memory only.
SubtreePop(p, f) ==
    /\ At(p, "subtree", "pop")
    /\ f \in main[p].files \ main[p].seen
    /\ \A g \in main[p].files \ main[p].seen : PathRank(f) <= PathRank(g)
    /\ mem' = [mem EXCEPT ![p][f] = None]
    /\ LET file_hash == mem[p][f]
           popped == [main EXCEPT
               ![p].seen = @ \cup {f},
               ![p].pc = IF main[p].seen \cup {f} = main[p].files
                         THEN "save_lock" ELSE @]
       IN IF ~main[p].keep /\ file_hash # None
          THEN \/ /\ store' = [store EXCEPT ![s3_key(file_hash, f)] = NoObject]
                  /\ main' = popped
                  /\ UNCHANGED <<task, faults>>
               \/ /\ Fault
                  /\ End(p, "error")
                  /\ UNCHANGED store
          ELSE /\ main' = popped
               /\ UNCHANGED <<store, task, faults>>
    /\ UNCHANGED <<fs, disk, lock, shutdown, calls, edits, hist, tmp, query,
                   answer>>

SubtreeSaveLock(p) ==
    /\ At(p, "subtree", "save_lock")
    /\ Acquire(MainThread(p))
    /\ main' = [main EXCEPT ![p].pc = "save"]
    /\ UNCHANGED <<fs, store, disk, mem, task, shutdown, calls, edits, faults,
                   hist, tmp, query, answer>>

\* The second locked section: save_manifest writes self.manifest.
SubtreeSave(p) ==
    /\ At(p, "subtree", "save")
    /\ Release(MainThread(p))
    /\ disk' = mem[p]
    /\ End(p, "ok")
    /\ UNCHANGED <<fs, store, mem, shutdown, calls, edits, faults, hist, tmp,
                   query, answer>>

Subtree(p) ==
    \/ \E directory_str \in PlainPatterns, keep_in_s3 \in BOOLEAN :
           SubtreeStart(p, directory_str, keep_in_s3)
    \/ SubtreeLock(p)
    \/ SubtreeSelect(p)
    \/ \E f \in Paths : SubtreePop(p, f)
    \/ SubtreeSaveLock(p)
    \/ SubtreeSave(p)

\* Two engines that remove files and subtrees, in the repository where both
\* paths are tracked.
NextSubtree == \E p \in Procs : Subtree(p) \/ Remove(p)
SpecSubtree == InitChunked /\ [][NextSubtree]_vars


-----------------------------------------------------------------------------
(***************************************************************************)
(* The temporary files of one run of upload and of one run of download:    *)
(* the compressed file, the chunk files of split_file, the files the       *)
(* objects are fetched into and the file they are merged into.  A file is  *)
(* a pair of its kind and its index; the blob has n paths (chunks, or the  *)
(* compressed file itself when it is not chunked).                         *)
(***************************************************************************)
MaxPaths == 3
Compressed == <<"compressed", 0>>
ChunkFile(i) == <<"chunk", i>>
Target(i) == <<"target", i>>
Transfer(func, chunked, n) == [func |-> func, chunked |-> chunked, n |-> n]
Runs ==
    {Transfer(func, chunked, n) :
         func \in {"upload", "download"}, chunked \in BOOLEAN,
         n \in 1..MaxPaths}
    \ {Transfer(func, FALSE, n) :
           func \in {"upload", "download"}, n \in 2..MaxPaths}

\* temp is the content of the temporary directory, torn the files in it
\* that were cut short, idx the turn of the loop over the paths or keys.
NoRun == [pc |-> "start", idx |-> 0, temp |-> {}, torn |-> {}]

\* paths[idx] of upload: a chunk file, or the compressed file.
PathOf(idx) == IF query.chunked THEN ChunkFile(idx) ELSE Compressed

\* compress_file and, for a blob larger than chunk_size, split_file.
TempCompress ==
    /\ query.func = "upload"
    /\ answer.pc = "start"
    /\ answer' = [answer EXCEPT
           !.pc = "head",
           !.temp = {Compressed} \cup
                    (IF query.chunked
                     THEN {ChunkFile(i) : i \in 0..(query.n - 1)} ELSE {})]
    /\ UNCHANGED <<fs, store, disk, mem, lock, main, task, shutdown, calls,
                   edits, faults, hist, tmp, query>>

\* The end of one turn of "for chunk_idx, path in enumerate(paths)": the
\* finally clause removes the path of the turn; an error leaves the loop
\* and the function, the last turn leads to the code after the loop.
TurnEnds(raised) ==
    [answer EXCEPT
        !.temp = @ \ {PathOf(answer.idx)},
        !.idx = @ + 1,
        !.pc = IF raised THEN "raised"
               ELSE IF answer.idx + 1 = query.n THEN "remove" ELSE "head"]

\* head_object of the turn: an equal ETag skips the PUT ("continue"), a 404
\* or another ETag goes on to it, any other error is raised.
TempHead(answered) ==
    /\ answer.pc = "head"
    /\ answer' = IF answered = "skip" THEN TurnEnds(FALSE)
                 ELSE IF answered = "put" THEN [answer EXCEPT !.pc = "put"]
                 ELSE TurnEnds(TRUE)
    /\ UNCHANGED <<fs, store, disk, mem, lock, main, task, shutdown, calls,
                   edits, faults, hist, tmp, query>>

\* upload_fileobj of the turn.
TempPut(raised) ==
    /\ answer.pc = "put"
    /\ answer' = TurnEnds(raised)
    /\ UNCHANGED <<fs, store, disk, mem, lock, main, task, shutdown, calls,
                   edits, faults, hist, tmp, query>>

\* After the loop: os.remove(compressed_path), OSError ignored.
TempRemove ==
    /\ answer.pc = "remove"
    /\ answer' = [answer EXCEPT !.pc = "returned", !.temp = @ \ {Compressed}]
    /\ UNCHANGED <<fs, store, disk, mem, lock, main, task, shutdown, calls,
                   edits, faults, hist, tmp, query>>

\* One turn of download's "for idx, key in enumerate(keys)": head_object
\* and download_fileobj into a new temporary file.  An error of head_object
\* leaves no file, an error of download_fileobj a file cut short; both are
\* swallowed.
TempFetch(fetched) ==
    /\ query.func = "download"
    /\ answer.pc \in {"start", "fetch"}
    /\ answer' = [answer EXCEPT
           !.idx = @ + 1,
           !.pc = IF answer.idx + 1 < query.n THEN "fetch"
                  ELSE IF query.chunked THEN "merge" ELSE "decompress",
           !.temp = IF fetched = "head_error" THEN @
                    ELSE @ \cup {Target(answer.idx)},
           !.torn = IF fetched = "get_error"
                    THEN @ \cup {Target(answer.idx)} ELSE @]
    /\ UNCHANGED <<fs, store, disk, mem, lock, main, task, shutdown, calls,
                   edits, faults, hist, tmp, query>>

\* "if chunk_keys:" merge_files(compressed_path, target_paths), then the
\* removal of the targets.  merge_files opens its output first; a target
\* that is missing raises out of it and out of download, with the output
\* written up to there and every target still in place.
TempMerge ==
    /\ answer.pc = "merge"
    /\ LET targets == {Target(i) : i \in 0..(query.n - 1)} IN
       answer' = IF targets \subseteq answer.temp
                 THEN [answer EXCEPT
                          !.pc = "decompress",
                          !.temp = (@ \ targets) \cup {Compressed},
                          !.torn = IF answer.torn = {} THEN {}
                                   ELSE {Compressed}]
                 ELSE [answer EXCEPT
                          !.pc = "raised",
                          !.temp = @ \cup {Compressed},
                          !.torn = @ \cup {Compressed}]
    /\ UNCHANGED <<fs, store, disk, mem, lock, main, task, shutdown, calls,
                   edits, faults, hist, tmp, query>>

\* decompress_file of the blob, then os.remove(compressed_path).  A blob
\* that is missing or cut short raises, and the "raise" of the except
\* clause leaves download before the removal.
TempDecompress ==
    /\ answer.pc = "decompress"
    /\ LET compressed_path == IF query.chunked THEN Compressed ELSE Target(0)
       IN answer' =
              IF compressed_path \in answer.temp \ answer.torn
              THEN [answer EXCEPT !.pc = "returned",
                                  !.temp = @ \ {compressed_path}]
              ELSE [answer EXCEPT !.pc = "raised"]
    /\ UNCHANGED <<fs, store, disk, mem, lock, main, task, shutdown, calls,
                   edits, faults, hist, tmp, query>>

InitTemp ==
    /\ fs = [f \in Paths |-> 1]
    /\ store = [k \in Keys |-> NoObject]
    /\ disk = EmptyFiles
    /\ mem = [p \in Procs |-> EmptyFiles]
    /\ lock = NoOne
    /\ main = [p \in Procs |-> IdleMain]
    /\ task = [p \in Procs |-> NoTasks]
    /\ shutdown = [p \in Procs |-> FALSE]
    /\ calls = 0
    /\ edits = 0
    /\ faults = 0
    /\ hist = [p \in Procs |-> NoHist]
    /\ tmp = NoFile
    /\ query \in Runs
    /\ answer = NoRun
NextTemp ==
    \/ TempCompress
    \/ \E answered \in {"skip", "put", "error"} : TempHead(answered)
    \/ \E raised \in BOOLEAN : TempPut(raised)
    \/ TempRemove
    \/ \E fetched \in {"ok", "head_error", "get_error"} : TempFetch(fetched)
    \/ TempMerge
    \/ TempDecompress
SpecTemp == InitTemp /\ [][NextTemp]_vars


\* Uploads of one file under one key, one after another, by engines with
\* different chunk_size (1, for which split_file stores nothing, left
\* aside), and the download that follows.  Every upload compresses the file
\* to the same blob; a chunked one puts (or finds, by the ETag) its chunk i
\* under f"{s3_key}.chunk{i}" and a plain one its blob under s3_key; no
\* upload deletes an object.
Overlay(paths, objects) ==
    [i \in 1..(IF Len(paths) > Len(objects) THEN Len(paths)
               ELSE Len(objects)) |->
        IF i <= Len(paths) THEN paths[i] ELSE objects[i]]

Reupload(chunk_size) ==
    /\ answer.step \in {"new", "uploaded"}
    /\ calls < MaxCalls
    /\ calls' = calls + 1
    /\ LET compressed == gzip_compress(query.data)
           chunked == Len(compressed) > chunk_size
           paths == IF chunked
                    THEN split_file(compressed, chunk_size)
                    ELSE <<compressed>>
       IN answer' = [answer EXCEPT
              !.step = "uploaded",
              !.chunked = chunked,
              !.single = IF chunked THEN @ ELSE paths,
              !.chunks = IF chunked THEN Overlay(paths, @) ELSE @]
    /\ UNCHANGED <<fs, store, disk, mem, lock, main, task, shutdown, edits,
                   faults, hist, tmp, query>>

InitReupload ==
    /\ fs = [f \in Paths |-> 1]
    /\ store = [k \in Keys |-> NoObject]
    /\ disk = EmptyFiles
    /\ mem = [p \in Procs |-> EmptyFiles]
    /\ lock = NoOne
    /\ main = [p \in Procs |-> IdleMain]
    /\ task = [p \in Procs |-> NoTasks]
    /\ shutdown = [p \in Procs |-> FALSE]
    /\ calls = 0
    /\ edits = 0
    /\ faults = 0
    /\ hist = [p \in Procs |-> NoHist]
    /\ tmp = NoFile
    /\ query \in {t \in Transfers : t.chunk_size = 0}
    /\ answer = NoTransfer
NextReupload ==
    \/ \E chunk_size \in (0..MaxChunkSize) \ {1} : Reupload(chunk_size)
    \/ ChunkDownload
SpecReupload == InitReupload /\ [][NextReupload]_vars

-----------------------------------------------------------------------------
(* S3LFS._lock_context entered by a caller that may already be inside it.  *)
(* Every entry opens a handle of its own on the lock file; the exclusive   *)
(* lock belongs to the handle, not to the thread.  query[p] tells whether  *)
(* the body of p's with block enters _lock_context again; answer[p] holds  *)
(* the stack of p's handles, the innermost last, and the number of times p *)
(* has entered.                                                            *)

NoHandles == [handles |-> <<>>, entries |-> 0]

Handle(p) == <<p, Len(answer[p].handles)>>

Innermost(p) == answer[p].handles[Len(answer[p].handles)]

Replaced(p, state) ==
    [answer EXCEPT ![p].handles[Len(answer[p].handles)] = state]

\* lock = open(self._lock_file, "w"), by a caller that holds no lock.
ContextOpen(p) ==
    /\ answer[p].handles = <<>>
    /\ answer[p].entries < MaxCalls
    /\ answer' = [answer EXCEPT ![p].handles = <<"open">>,
                                ![p].entries = @ + 1]
    /\ UNCHANGED <<fs, store, disk, mem, lock, main, task, shutdown, calls,
                   edits, faults, hist, tmp, query>>

\* The same statement, reached from the body of the caller's with block.
ContextReenter(p) ==
    /\ query[p]
    /\ answer[p].handles = <<"locked">>
    /\ answer' = [answer EXCEPT ![p].handles = Append(@, "open"),
                                ![p].entries = @ + 1]
    /\ UNCHANGED <<fs, store, disk, mem, lock, main, task, shutdown, calls,
                   edits, faults, hist, tmp, query>>

\* portalocker.lock(lock, portalocker.LOCK_EX), then yield lock.
ContextLock(p) ==
    /\ answer[p].handles # <<>>
    /\ Innermost(p) = "open"
    /\ Acquire(Handle(p))
    /\ answer' = Replaced(p, "locked")
    /\ UNCHANGED <<fs, store, disk, mem, main, task, shutdown, calls, edits,
                   faults, hist, tmp, query>>

\* The body returns; finally: portalocker.unlock(lock).
ContextUnlock(p) ==
    /\ answer[p].handles # <<>>
    /\ \/ Innermost(p) = "locked"
          /\ (query[p] => Len(answer[p].handles) = 2)
       \/ Innermost(p) = "resumed"
    /\ Release(Handle(p))
    /\ answer' = Replaced(p, "unlocked")
    /\ UNCHANGED <<fs, store, disk, mem, main, task, shutdown, calls, edits,
                   faults, hist, tmp, query>>

\* lock.close(); the with block that enclosed this one goes on.
ContextClose(p) ==
    /\ answer[p].handles # <<>>
    /\ Innermost(p) = "unlocked"
    /\ answer' = [answer EXCEPT ![p].handles =
                     IF Len(@) = 1 THEN <<>> ELSE <<"resumed">>]
    /\ UNCHANGED <<fs, store, disk, mem, lock, main, task, shutdown, calls,
                   edits, faults, hist, tmp, query>>

InitContext ==
    /\ fs = [f \in Paths |-> 1]
    /\ store = [k \in Keys |-> NoObject]
    /\ disk = EmptyFiles
    /\ mem = [p \in Procs |-> EmptyFiles]
    /\ lock = NoOne
    /\ main = [p \in Procs |-> IdleMain]
    /\ task = [p \in Procs |-> NoTasks]
    /\ shutdown = [p \in Procs |-> FALSE]
    /\ calls = 0
    /\ edits = 0
    /\ faults = 0
    /\ hist = [p \in Procs |-> NoHist]
    /\ tmp = NoFile
    /\ query \in [Procs -> BOOLEAN]
    /\ answer = [p \in Procs |-> NoHandles]

NextContext ==
    \E p \in Procs :
        \/ ContextOpen(p)
        \/ ContextReenter(p)
        \/ ContextLock(p)
        \/ ContextUnlock(p)
        \/ ContextClose(p)

SpecContext == InitContext /\ [][NextContext]_vars

-----------------------------------------------------------------------------
(* S3LFS.track and S3LFS.checkout with interleaved=False, the two-stage    *)
(* pipelines, run in a repository of their own that starts as a copy of    *)
(* engine "A"'s: answer holds that repository (working tree, bucket,       *)
(* manifest file, self.manifest) and the position and locals of the call;  *)
(* selected keeps files_to_upload or files_to_download until the next      *)
(* call.                                                                   *)
(* Its lock file has no other user, so its locked sections are entered at  *)
(* once.  Every call is started there first and then by engine "A", which  *)
(* runs the interleaved pipeline, with the same arguments.                 *)

NoStaged == [pc |-> "idle", kind |-> "none", pat |-> <<>>, calls |-> 0,
             out |-> "none", fs |-> [f \in Paths |-> Absent],
             store |-> [k \in Keys |-> NoObject], disk |-> EmptyFiles,
             mem |-> EmptyFiles, file_hashes |-> EmptyFiles,
             pairs |-> {}, selected |-> {}, pending |-> {}]

Returned(out) == [answer EXCEPT !.pc = "idle", !.out = out]

\* A phase 2 that finds nothing to upload.
NothingToUpload(file_hashes, files) == {}

\* Phase 2 of track: "if current_hash != stored_hash" over file_hashes.
files_to_upload(file_hashes, files) ==
    {f \in Paths : file_hashes[f] # None /\ file_hashes[f] # files[f]}

\* Phase 2 of checkout: a file that does not exist, or whose digest is not
\* the one of files_to_checkout, is appended to files_to_download.
files_to_download(tree, files_to_checkout) ==
    {f \in Paths : /\ files_to_checkout[f] # None
                   /\ \/ tree[f] = Absent
                      \/ hash_file(tree[f]) # files_to_checkout[f]}

\* The call starts in a repository that is in the state of engine "A"'s.
StagedStart(kind, pat) ==
    /\ answer.pc = "idle"
    /\ main["A"].pc = "idle"
    /\ answer.calls = calls
    /\ calls < MaxCalls
    /\ answer.fs = fs /\ answer.store = store
    /\ answer.disk = disk /\ answer.mem = mem["A"]
    /\ answer' = [answer EXCEPT !.pc = kind, !.kind = kind, !.pat = pat,
                                !.calls = @ + 1, !.out = "none",
                                !.file_hashes = EmptyFiles, !.pairs = {},
                                !.selected = {}, !.pending = {}]
    /\ UNCHANGED <<fs, store, disk, mem, lock, main, task, shutdown, calls,
                   edits, faults, hist, tmp, query>>

\* Phase 1 of track: _resolve_filesystem_paths, then the digests of all the
\* files; none ends the call.
StagedHash ==
    /\ answer.pc = "track"
    /\ LET files_to_track == resolve_filesystem_paths(answer.fs, answer.pat)
       IN answer' =
            IF files_to_track = {} THEN Returned("ok")
            ELSE [answer EXCEPT
                    !.pc = "select",
                    !.file_hashes = [f \in Paths |->
                        IF f \in files_to_track
                        THEN hash_file(answer.fs[f]) ELSE None]]
    /\ UNCHANGED <<fs, store, disk, mem, lock, main, task, shutdown, calls,
                   edits, faults, hist, tmp, query>>

\* Phase 2 of track, in the locked section: the files whose digest is not
\* the one of self.manifest["files"]; none ends the call, otherwise
\* test_s3_credentials and the submission of one upload per file follow.
StagedSelect ==
    /\ answer.pc = "select"
    /\ LET selected == files_to_upload(answer.file_hashes, answer.mem)
       IN answer' =
            IF selected = {} THEN Returned("ok")
            ELSE [answer EXCEPT
                    !.pc = "upload",
                    !.pairs = {<<f, answer.file_hashes[f]>> : f \in selected},
                    !.selected = selected,
                    !.pending = selected]
    /\ UNCHANGED <<fs, store, disk, mem, lock, main, task, shutdown, calls,
                   edits, faults, hist, tmp, query>>

\* Phase 3 of track: upload(file_path, needs_immediate_update=False) of one
\* of the files: the key is made of the file's digest, head_object skips
\* the PUT of a blob the bucket holds, upload_fileobj puts any other.
StagedUpload(f) ==
    /\ answer.pc = "upload"
    /\ f \in answer.pending
    /\ LET key == s3_key(hash_file(answer.fs[f]), f)
           blob == compress_file(answer.fs[f])
       IN answer' = [answer EXCEPT
            !.store = IF /\ answer.store[key] # NoObject
                         /\ md5(answer.store[key]) = md5(blob)
                      THEN @ ELSE [@ EXCEPT ![key] = blob],
            !.pending = @ \ {f},
            !.pc = IF answer.pending = {f} THEN "commit" ELSE @]
    /\ UNCHANGED <<fs, store, disk, mem, lock, main, task, shutdown, calls,
                   edits, faults, hist, tmp, query>>

\* Phase 4 of track, in the locked section: load_manifest, the assignment
\* of every pair of files_to_upload, save_manifest.
StagedCommit ==
    /\ answer.pc = "commit"
    /\ LET files == Merged(answer.disk, answer.pairs)
       IN answer' = [Returned("ok") EXCEPT !.mem = files, !.disk = files]
    /\ UNCHANGED <<fs, store, disk, mem, lock, main, task, shutdown, calls,
                   edits, faults, hist, tmp, query>>

\* Phases 1 and 2 of checkout: _resolve_manifest_paths, the digests of the
\* files that exist, and files_to_download; no file in either ends the call.
StagedCompare ==
    /\ answer.pc = "checkout"
    /\ LET resolved == resolve_manifest_paths(answer.mem, answer.pat)
           files_to_checkout == [f \in Paths |-> IF f \in resolved
                                                 THEN answer.mem[f] ELSE None]
           selected == files_to_download(answer.fs, files_to_checkout)
       IN answer' =
            IF selected = {} THEN Returned("ok")
            ELSE [answer EXCEPT !.pc = "download", !.selected = selected,
                                !.pending = selected]
    /\ UNCHANGED <<fs, store, disk, mem, lock, main, task, shutdown, calls,
                   edits, faults, hist, tmp, query>>

\* Phase 3 of checkout: download(file) of one of the files.  The expected
\* digest is read from self.manifest["files"]; a file that has it is left
\* alone; otherwise the object of the key is decompressed into the file.
\* Without the object decompress_file raises, future.result() raises it
\* again, and the call ends with the error when the executor has drained.
StagedDownload(f) ==
    /\ answer.pc = "download"
    /\ f \in answer.pending
    /\ LET expected_hash == answer.mem[f]
           key == s3_key(expected_hash, f)
           current == /\ answer.fs[f] # Absent
                      /\ hash_file(answer.fs[f]) = expected_hash
           missing == ~current /\ answer.store[key] = NoObject
           out == IF missing THEN "error"
                  ELSE IF answer.out = "none" THEN "ok" ELSE answer.out
           after == [answer EXCEPT
               !.fs = IF current \/ missing THEN @
                      ELSE [@ EXCEPT ![f] = decompress_file(answer.store[key])],
               !.pending = @ \ {f},
               !.out = out]
       IN answer' = IF answer.pending = {f}
                    THEN [after EXCEPT !.pc = "idle"]
                    ELSE after
    /\ UNCHANGED <<fs, store, disk, mem, lock, main, task, shutdown, calls,
                   edits, faults, hist, tmp, query>>

Staged ==
    \/ \E kind \in {"track", "checkout"}, pat \in Patterns :
           StagedStart(kind, pat)
    \/ StagedHash
    \/ StagedSelect
    \/ \E f \in Paths : StagedUpload(f)
    \/ StagedCommit
    \/ StagedCompare
    \/ \E f \in Paths : StagedDownload(f)

\* Engine "A" runs the call that was started in the copy: the same
\* operation on the same pattern, with the interleaved pipeline.
Interleaved ==
    /\ main["A"].pc = "idle" => calls < answer.calls
    /\ \/ answer.kind = "track" /\ Track("A", {answer.pat})
       \/ answer.kind = "checkout" /\ Checkout("A", {answer.pat})

\* The two repositories start equal: some working tree, "a" tracked with
\* content 2, and store calls that do not fail.
InitModes ==
    /\ fs \in [Paths -> Contents \cup {Absent}]
    /\ store = [k \in Keys |-> IF k = s3_key(hash_file(2), PathA)
                               THEN compress_file(2) ELSE NoObject]
    /\ disk = TrackedBefore
    /\ mem = [p \in Procs |-> TrackedBefore]
    /\ lock = NoOne
    /\ main = [p \in Procs |-> IdleMain]
    /\ task = [p \in Procs |-> NoTasks]
    /\ shutdown = [p \in Procs |-> FALSE]
    /\ calls = 0
    /\ edits = 0
    /\ faults = MaxFaults
    /\ hist = [p \in Procs |-> NoHist]
    /\ tmp = NoFile
    /\ query = NoQuery
    /\ answer = [NoStaged EXCEPT !.fs = fs, !.store = store, !.disk = disk,
                                 !.mem = mem["A"]]

NextModes == Staged \/ Interleaved
SpecModes == InitModes /\ [][NextModes]_vars

-----------------------------------------------------------------------------
(* The properties. *)

\* A call of the given kind returns or raises in this step.
Ends(p, kind) ==
    /\ main[p].kind = kind
    /\ main[p].pc # "idle"
    /\ main'[p].pc = "idle"

\* C1: after an engine's track(P) has ended without error, whatever is then
\* deleted or overwritten in the working tree, a checkout(P) that runs
\* undisturbed (no outside write, no failing store call, no cancellation
\* while it runs) leaves every file that was tracked with the content that
\* was tracked.
RoundTrip ==
    [][\A p \in Procs :
          ( /\ Ends(p, "checkout")
            /\ main[p].pat = hist[p].pat
            /\ main[p].e0 = edits'
            /\ main[p].f0 = faults'
            /\ ~shutdown[p] )
          => \A f \in Paths :
                 hist[p].snap[f] # Absent => fs'[f] = hist[p].snap[f]]_vars

\* A step of a repeated track over an unwritten working tree.
SecondRun(p) ==
    /\ main[p].kind = "track"
    /\ main[p].repeat
    /\ edits' = main[p].e0

\* C3: a second track(P) by the engine whose first track(P) ended without
\* error, over a working tree that has not been written since the first one
\* started, changes neither the store nor the manifest file, no task of it
\* fails and every task that ends reports "not uploaded"; without a failing
\* store call it returns normally.
PoolIdempotence ==
    [][\A p \in Procs :
          SecondRun(p) =>
              /\ store' = store
              /\ disk' = disk
              /\ \A f \in Paths :
                     /\ task'[p][f].pc # "failed"
                     /\ task'[p][f].pc = "done" => ~task'[p][f].uploaded
              /\ (Ends(p, "track") /\ faults' = main[p].f0)
                     => main'[p].out = "ok"]_vars

\* A second run in which every worker has reported "not uploaded".
PoolIdempotenceCase ==
    \E p \in Procs :
        /\ main[p].kind = "track"
        /\ main[p].repeat
        /\ edits = main[p].e0
        /\ Cardinality(main[p].files) = 2
        /\ main[p].seen = main[p].files
        /\ \A f \in main[p].files :
               task[p][f].pc = "done" /\ ~task[p][f].uploaded

\* C7: when a task of a track or a checkout has failed, the call ends by
\* raising, and it ends only when every task it submitted has run to its
\* end.
SiblingsRunToCompletion ==
    [][\A p \in Procs :
          ( /\ main[p].kind \in {"track", "checkout"}
            /\ main[p].pc # "idle"
            /\ main'[p].pc = "idle"
            /\ \E f \in main[p].files : task[p][f].pc = "failed" )
          => /\ main'[p].out = "error"
             /\ \A f \in main[p].files :
                    task[p][f].pc \in {"done", "failed"}]_vars

\* The error of one task is about to be raised and a sibling has uploaded.
SiblingsRunToCompletionCase ==
    \E p \in Procs :
        /\ main[p].pc = "drain"
        /\ main[p].out = "error"
        /\ \E f, g \in main[p].files :
               /\ task[p][f].pc = "failed"
               /\ task[p][g].pc = "done"
               /\ task[p][g].uploaded

\* C6: when the cancel flag is set during a track, the pair of every task
\* that has completed its upload is in the manifest file when the track
\* returns.
CancelledTrackCommits ==
    [][\A p \in Procs :
          (Ends(p, "track") /\ shutdown[p] /\ main'[p].out = "ok")
          => \A f \in main[p].files :
                 (task[p][f].pc = "done" /\ task[p][f].uploaded)
                 => disk'[f] = task[p][f].hash]_vars

\* C4: a sweep that runs undisturbed and returns leaves, for every tracked
\* file whose content is not the one the manifest records, an object under
\* the key of the new digest and the new digest in the manifest entry, in
\* memory and in the manifest file.
SweepRecordsNewDigest ==
    [][\A p \in Procs :
          ( /\ Ends(p, "sweep")
            /\ main'[p].out = "ok"
            /\ edits' = main[p].e0
            /\ faults' = main[p].f0 )
          => \A f \in Paths :
                 ( /\ mem[p][f] # None
                   /\ fs[f] # Absent
                   /\ hash_file(fs[f]) # mem[p][f] )
                 => /\ store'[s3_key(hash_file(fs[f]), f)] # NoObject
                    /\ mem'[p][f] = hash_file(fs[f])
                    /\ disk'[f] = hash_file(fs[f])]_vars

\* The threads and the sections they run with the lock held.
MainInSection(m) ==
    m.pc \in {"commit", "resolve", "update", "read", "keys", "compare", "save",
             "save_open", "save_dump", "save_replace", "save_except", "saved",
             "select"}
TaskInSection(t) == t.pc \in {"read", "dread"}
MainWaits(m) == m.pc \in {"resolve_lock", "lock", "save_lock"}
TaskWaits(t) == t.pc \in {"lock", "dlock"}
Inside ==
    {MainThread(p) : p \in {q \in Procs : MainInSection(main[q])}}
    \cup {Worker(w[1], w[2]) :
              w \in {v \in Procs \X Paths : TaskInSection(task[v[1]][v[2]])}}


\* The commit step writes its own pairs and keeps every other entry.
CommitKeepsOthers ==
    [][\A p \in Procs :
          (main[p].kind = "track" /\ main[p].pc = "commit"
              /\ main'[p].pc = "idle")
          => \A f \in Paths :
                 /\ \A d \in Digests :
                        <<f, d>> \in main[p].uploaded => disk'[f] = d
                 /\ (\A d \in Digests : <<f, d>> \notin main[p].uploaded)
                        => disk'[f] = disk[f]]_vars

Tracked(p) == {f \in Paths : hist[p].snap[f] # Absent}

BothCommitted ==
    \A p, q \in Procs :
        ( /\ p # q
          /\ calls = 2
          /\ main[p].pc = "idle" /\ main[q].pc = "idle"
          /\ Tracked(p) # {} /\ Tracked(q) # {}
          /\ Tracked(p) \cap Tracked(q) = {} )
        => /\ \A f \in Tracked(p) : disk[f] = hash_file(hist[p].snap[f])
           /\ \A f \in Tracked(q) : disk[f] = hash_file(hist[q].snap[f])

\* C2: a track's commit puts each of its pairs into the manifest file and
\* keeps every other entry of the file as it is at that moment, whichever
\* engine wrote it; and when two engines have each finished one track, the
\* first calls of the run, on disjoint files without error, the manifest
\* file holds the digest of every file either of them tracked.
ConcurrentCommitsUnion == []BothCommitted /\ CommitKeepsOthers

\* Two tracks of disjoint files have overlapped and both have committed:
\* the second commit was made by an engine that had not seen the first.
ConcurrentCommitsUnionCase ==
    \E p, q \in Procs :
        /\ p # q
        /\ calls = 2
        /\ main[p].pc = "idle" /\ main[q].pc = "idle"
        /\ Tracked(p) # {} /\ Tracked(q) # {}
        /\ Tracked(p) \cap Tracked(q) = {}
        /\ \E f \in Tracked(q) : mem[p][f] = None
        /\ \E f \in Tracked(p) : mem[q][f] # None
        /\ \A f \in Paths : disk[f] # None

\* The digests the manifest file refers to.
Referenced == {disk[f] : f \in Paths} \ {None}

Undisturbed(p) ==
    /\ main[p].alone
    /\ calls' = main[p].c0
    /\ faults' = main[p].f0

\* C5: a cleanup that runs while no other engine runs a call deletes no
\* object whose digest is a value of the manifest file's files map, and
\* when it returns every object left in the store has such a digest.
CleanupSound ==
    [][\A p \in Procs :
          (main[p].kind = "cleanup" /\ Undisturbed(p))
          => /\ \A k \in Keys :
                    (store[k] # NoObject /\ store'[k] = NoObject)
                    => KeyDigest(k) \notin Referenced
             /\ Ends(p, "cleanup")
                    => \A k \in Keys :
                           store'[k] # NoObject
                           => KeyDigest(k) \in Referenced]_vars

\* A thread of the engine is at a read of the manifest under the lock.
ReadsInSection(p) ==
    \/ main[p].kind = "checkout" /\ main[p].pc = "resolve"
    \/ main[p].kind = "remove" /\ main[p].pc = "update"
    \/ main[p].kind = "cleanup" /\ main[p].pc = "read"
    \/ \E f \in Paths : task[p][f].pc \in {"read", "dread"}

\* C8: a thread that reads the manifest in a locked section reads the files
\* map of the manifest file.
LockedReadsAreCurrent ==
    \A p \in Procs : ReadsInSection(p) => ManifestFiles(p) = disk

\* C9: at most one thread of one engine is inside a locked section.
MutualExclusion == Cardinality(Inside) <= 1

\* One thread is inside while a thread of the other engine waits for the
\* lock.
MutualExclusionCase ==
    \E p, q \in Procs :
        /\ p # q
        /\ Cardinality(Inside) = 1
        /\ MainInSection(main[p]) \/ \E f \in Paths : TaskInSection(task[p][f])
        /\ MainWaits(main[q]) \/ \E f \in Paths : TaskWaits(task[q][f])

\* Leaving a locked section frees the lock.
SectionExitFrees ==
    [][\A p \in Procs :
          /\ (MainInSection(main[p]) /\ ~MainInSection(main'[p]))
                 => lock' = NoOne
          /\ \A f \in Paths :
                 (TaskInSection(task[p][f]) /\ ~TaskInSection(task'[p][f]))
                 => lock' = NoOne]_vars

InSave(m) ==
    m.pc \in {"save_open", "save_dump", "save_replace", "save_except"}

\* C11: a save leaves the manifest file holding a complete document at every
\* step, the one it held when the save began or the one being saved; and
\* when a save has failed the file holds the document it held before and
\* the temporary file is gone.
AtomicPersistence ==
    [][/\ Complete(disk')
       /\ \A p \in Procs :
              /\ InSave(main[p])
                     => disk' = main[p].doc0 \/ disk' = mem[p]
              /\ (InSave(main[p]) /\ main'[p].saved = "failed")
                     => disk' = main[p].doc0 /\ tmp' = NoFile]_vars

\* A save is failing after it has written part of the document: the
\* temporary file holds the part, and the manifest file is the earlier
\* document, which the engine's map no longer equals.
AtomicPersistenceCase ==
    \E p \in Procs :
        /\ main[p].pc = "save_except"
        /\ tmp = Partial
        /\ disk = main[p].doc0
        /\ disk # mem[p]

\* C12: a call whose save_manifest has failed goes no further than the end
\* of its locked section: it ends there, and it ends by raising.
SaveErrorSurfaces ==
    [][\A p \in Procs :
          (main[p].pc = "saved" /\ main[p].saved = "failed")
          => main'[p].pc = "idle" /\ main'[p].out = "error"]_vars

\* C13: on a manifest whose keys are the files of the working tree, the
\* manifest-side resolver and the filesystem-side resolver return the same
\* paths for every pattern.
ResolverEquivalence ==
    (answer.manifest # Unanswered /\ answer.filesystem # Unanswered)
    => answer.manifest = answer.filesystem

\* Matching segment by segment: a "**" segment stands for zero or more whole
\* segments, every other segment of the pattern matches one segment of the
\* path.
RECURSIVE SegmentWise(_, _)
SegmentWise(fileParts, patParts) ==
    IF patParts = <<>> THEN fileParts = <<>>
    ELSE IF patParts[1] = <<"*", "*">>
         THEN \/ SegmentWise(fileParts, Tail(patParts))
              \/ (fileParts # <<>> /\ SegmentWise(Tail(fileParts), patParts))
    ELSE /\ fileParts # <<>>
         /\ fnmatch(fileParts[1], patParts[1])
         /\ SegmentWise(Tail(fileParts), Tail(patParts))

\* C14: whatever _glob_match matches, it matches segment by segment: no "*"
\* or "?" of the pattern stands for a "/" of the path, in patterns with a
\* "**" as in those without.
StarStaysInSegment ==
    answer.globbed # Unanswered
    => \A f \in answer.globbed : SegmentWise(split(f), split(query.pat))

\* A pattern A/**/B: a "**" segment with segments on both sides.
Infix(pat) ==
    \E i \in 2..(Len(split(pat)) - 1) : split(pat)[i] = <<"*", "*">>

\* C15: for a pattern A/**/B, _glob_match matches exactly the paths that
\* begin with segments matching A, end with segments matching B and have
\* zero or more segments between them.
StarStarSpansSegments ==
    (answer.globbed # Unanswered /\ Infix(query.pat))
    => answer.globbed =
           {f \in Universe : SegmentWise(split(f), split(query.pat))}

\* C16: for a pattern without glob characters the manifest-side resolver
\* returns the key that equals the pattern if there is one, and otherwise
\* the keys that start with the pattern and a "/", which may be none.
PlainResolution ==
    (answer.manifest # Unanswered /\ ~has_glob_chars(query.pat))
    => answer.manifest =
           IF query.pat \in query.keys
           THEN {query.pat}
           ELSE {f \in query.keys : startswith(f, query.pat \o <<"/">>)}

\* The resolver has returned the one entry under "data" of a manifest that
\* also has an entry under "data2".
PlainResolutionCase ==
    /\ query.pat = Data
    /\ {DataFTxt, Data2XTxt} \subseteq query.keys
    /\ answer.manifest = {DataFTxt}

\* C17: remove_subtree takes out of the manifest exactly the keys the
\* manifest-side resolver returns for its pattern, and deletes the object of
\* no other key.
SubtreeRemovesResolved ==
    answer.files # Unanswered
    => LET resolved == ManifestMatches(query.keys, query.pat) IN
       /\ answer.files = query.keys \ resolved
       /\ (query.keys \ resolved) \subseteq answer.objects

\* The objects stored for a path under a digest: the single object and the
\* chunk objects.
ObjectsOf(d, f) == {k \in Keys : KeyDigest(k) = d /\ k[3] = f}

\* C18: a remove of a tracked path takes its entry out of the manifest file;
\* with keep_in_s3 it leaves the store as it is, and without it, once it has
\* returned, no object stored for the path under the entry's digest is left.
RemoveLeavesNoObject ==
    [][\A p \in Procs :
          /\ ( /\ At(p, "remove", "update")
                /\ main'[p].pc # "update"
                /\ mem[p][main[p].pat] # None )
                 => /\ disk'[main[p].pat] = None
                    /\ store' = store
          /\ (At(p, "remove", "delete") /\ main'[p].out = "ok")
                 => \A j \in main[p].keys :
                        \A k \in ObjectsOf(KeyDigest(j), j[3]) :
                            store'[k] = NoObject]_vars

\* C19: a sweep over a working tree in which a tracked file is missing, with
\* no outside write and no failing store call while it runs, returns
\* normally, leaves the entry of the missing file as it is, and has uploaded
\* every other tracked file whose content has changed.
SweepSkipsMissing ==
    [][\A p \in Procs :
          ( /\ Ends(p, "sweep")
            /\ edits' = main[p].e0
            /\ faults' = main[p].f0
            /\ \E f \in Paths : mem[p][f] # None /\ fs[f] = Absent )
          => /\ main'[p].out = "ok"
             /\ \A f \in Paths :
                    /\ fs[f] = Absent => disk'[f] = disk[f]
                    /\ ( /\ mem[p][f] # None
                         /\ fs[f] # Absent
                         /\ hash_file(fs[f]) # mem[p][f] )
                       => store'[s3_key(hash_file(fs[f]), f)] # NoObject]_vars

\* C20: the step of a download that decompresses the downloaded bytes for an
\* entry (path, d) installs them at the path only if their SHA-256 is d, and
\* fails the task otherwise; and a checkout that returns normally, with no
\* outside write while it runs, leaves every path it has downloaded with a
\* content whose digest is the one it resolved for the path.
VerifiedCheckout ==
    [][\A p \in Procs :
          /\ \A f \in Paths :
                 ( /\ AtTask(p, f, "dinstall")
                   /\ task'[p][f].pc \in {"done", "failed"}
                   /\ task[p][f].blob # NoObject
                   /\ hash_file(decompress_file(task[p][f].blob))
                          # task[p][f].fhash )
                 => /\ fs'[f] = fs[f]
                    /\ task'[p][f].pc = "failed"
          /\ ( /\ Ends(p, "checkout")
               /\ main'[p].out = "ok"
               /\ edits' = main[p].e0
               /\ ~shutdown[p] )
             => \A f \in main[p].files :
                    task[p][f].uploaded
                    => <<f, hash_file(fs'[f])>> \in main[p].uploaded]_vars


\* C21: for every file and every chunk_size smaller than the size of the
\* compressed blob, upload stores the blob as chunks under the keys
\* f"{s3_key}.chunk{i}", i = 0..N-1, that make up the blob in index order, the
\* download that follows writes exactly the file's bytes, and merge_files of
\* split_file's chunks is the blob.
ChunkRoundTrip ==
    LET compressed == gzip_compress(query.data) IN
    query.chunk_size < Len(compressed) =>
        /\ answer.step # "new" =>
               /\ answer.chunked
               /\ answer.single = <<>>
               /\ answer.chunks # <<>>
               /\ merge_files(answer.chunks) = compressed
        /\ answer.step = "downloaded" =>
               /\ ~answer.raised
               /\ answer.file = query.data
        /\ answer.split => answer.merged = compressed


CredentialsErrorNotRetried ==
    (answer.errs \cap CredentialsErrors # {})
        => /\ answer.invocations = 1
           /\ answer.pc = "raised"
           /\ answer.out \in CredentialsErrors

\* C24: the function runs at most 1 + RETRY_TIMES times; a run that returns
\* ends the call with its result; and when the store calls have failed with
\* transient errors only, an error has gone to the caller only after every
\* run of the budget has failed.
RetryBudget ==
    /\ answer.invocations <= 1 + RETRY_TIMES
    /\ answer.attempt <= RETRY_TIMES
    /\ answer.pc = "returned" => answer.out = "return"
    /\ (answer.pc = "raised" /\ answer.errs \subseteq TransientErrors)
           => /\ answer.invocations = 1 + RETRY_TIMES
              /\ answer.out \in TransientErrors


UpToDate(f, d) == fs[f] # Absent /\ hash_file(fs[f]) = d
Fetching == {"dlist", "dhead", "dget", "dinstall"}

\* C25: the worker's test and download's test of an entry whose file exists
\* with the entry's digest end the task with no store call and no write of
\* the file; a file that is missing or differs goes on to the fetch.  A
\* task enters the fetch only from download's test of a file that is
\* missing or differs, the working tree is written only by the install of a
\* fetch, and while nobody else writes the tree, a file that is being
\* fetched is missing or differs from its entry.
CheckoutSkipsUpToDate ==
    [][\A p \in Procs : \A f \in Paths :
          /\ (task[p][f].pc = "dcheck" /\ task'[p][f] # task[p][f])
                 => IF UpToDate(f, task[p][f].hash)
                    THEN /\ task'[p][f].pc = "done"
                         /\ ~task'[p][f].uploaded
                         /\ fs' = fs
                    ELSE task'[p][f].pc = "dlock"
          /\ (task[p][f].pc = "dexists" /\ task'[p][f] # task[p][f])
                 => IF UpToDate(f, task[p][f].fhash)
                    THEN /\ task'[p][f].pc = "done"
                         /\ fs' = fs
                    ELSE task'[p][f].pc = "dlist"
          /\ (task'[p][f].pc = "dlist" /\ task[p][f].pc # "dlist")
                 => /\ task[p][f].pc = "dexists"
                    /\ ~UpToDate(f, task[p][f].fhash)
          /\ (fs'[f] # fs[f] /\ edits' = edits)
                 => \E q \in Procs : task[q][f].pc = "dinstall"
          /\ (edits = 0 /\ task[p][f].pc \in Fetching)
                 => ~UpToDate(f, task[p][f].fhash)]_vars

\* A second checkout of "a" after the first has fetched it: the worker has
\* found the file up to date and has ended without a download.
CheckoutSkipsUpToDateCase ==
    /\ main["A"].kind = "checkout"
    /\ calls = 2
    /\ edits = 0
    /\ task["A"][PathA].pc = "done"
    /\ ~task["A"][PathA].uploaded
    /\ fs[PathA] = 2


\* C26: checkout and download go by the manifest file's files map: the
\* resolution of a checkout selects only paths that have an entry in it, and
\* download's locked read of a path that has no entry in it ends the task
\* with no fetch and no write, whatever the store holds.
ManifestIsTruth ==
    [][\A p \in Procs :
          /\ ( /\ At(p, "checkout", "resolve")
               /\ main'[p] # main[p] )
                 => main'[p].files \subseteq {f \in Paths : disk[f] # None}
          /\ \A f \in Paths :
                ( /\ task[p][f].pc = "dread"
                  /\ task'[p][f] # task[p][f]
                  /\ disk[f] = None )
                    => /\ task'[p][f].pc = "done"
                       /\ fs' = fs]_vars


\* The lock is held by a thread of this engine.
Holds(p) == Len(lock) = 2 /\ lock[1] = p

\* C27: every change of an engine's files map and every write of the
\* manifest file is a step of a thread that holds the manifest lock.
MutationsUnderLock ==
    [][\A p \in Procs :
          /\ mem'[p] # mem[p] => Holds(p)
          /\ (disk' # disk /\ (main'[p] # main[p] \/ task'[p] # task[p]))
                 => Holds(p)]_vars


RemoveKeepsOthers ==
    [][\A p \in Procs :
          (At(p, "remove", "update") /\ main'[p].pc # "update")
          => \A g \in Paths \ {main[p].pat} : disk'[g] = disk[g]]_vars

\* C28: the locked section of a remove leaves every entry of the manifest
\* file other than its own path as it is at that moment, and a track's
\* commit leaves every entry other than its own pairs as it is at that
\* moment; so after a remove of one path and a track of another, in either
\* order, the file has the track's entry and not the removed one.
NoLostUpdate == RemoveKeepsOthers /\ CommitKeepsOthers


AllStored ==
    (\A p \in Procs : main[p].pc = "idle")
        => \A f \in Paths :
               disk[f] # None => store[s3_key(disk[f], f)] # NoObject

\* The keys under which the tasks of a running track have put an object.
Uploading(q) ==
    {s3_key(task[q][f].fhash, f) :
         f \in {g \in Paths : main[q].kind = "track" /\ task[q][g].uploaded}}

CleanupSparesUploads ==
    [][\A p \in Procs :
          main[p].kind = "cleanup"
          => \A k \in Keys :
                 (store[k] # NoObject /\ store'[k] = NoObject)
                 => \A q \in Others(p) : k \notin Uploading(q)]_vars

\* C29: once every call has ended, every entry of the manifest file has its
\* object in the store; and a cleanup deletes no object that a track running
\* in another engine has uploaded and is about to commit.
IntegrityUnderCleanup == []AllStored /\ CleanupSparesUploads


\* C30: every pair (path, digest) that a track takes from a worker for its
\* commit has the digest of the key under which the worker's upload has put
\* the object, and the commit writes these pairs.
DigestMatchesKey ==
    [][\A p \in Procs : \A f \in Paths : \A d \in Digests :
          /\ ( /\ main[p].kind = "track"
               /\ <<f, d>> \in main'[p].uploaded \ main[p].uploaded )
                 => d = task[p][f].fhash
          /\ ( /\ At(p, "track", "commit")
               /\ main'[p].pc = "idle"
               /\ <<f, d>> \in main[p].uploaded )
                 => disk'[f] = d]_vars


\* C31: a track in which the task of a file has failed never reaches its
\* commit: the manifest file is written by a track only in the commit of a
\* call whose tasks have all ended without error, and a track that raises
\* leaves the manifest file as it is, with none of its pairs in it, the
\* pairs of the uploads that succeeded included.
NoPartialCommit ==
    [][\A p \in Procs :
          main[p].kind = "track" =>
              /\ (disk' # disk /\ main'[p] # main[p])
                     => /\ main[p].pc = "commit"
                        /\ \A f \in main[p].files : task[p][f].pc = "done"
              /\ (\E f \in main[p].files : task[p][f].pc = "failed")
                     => main'[p].pc \notin {"phase3", "commit"}
              /\ (Ends(p, "track") /\ main'[p].out = "error")
                     => /\ disk' = disk
                        /\ main[p].pc # "commit"]_vars

\* A track of both files has raised after the file "a" was deleted under
\* it, while the upload of "d/a" had succeeded: the object of "d/a" is in
\* the store and the manifest file is as it was.
NoPartialCommitCase ==
    /\ main["A"].pc = "idle"
    /\ main["A"].out = "error"
    /\ calls = 1
    /\ faults = 0
    /\ fs[PathA] = Absent
    /\ store[s3_key(hash_file(1), PathDA)] # NoObject
    /\ disk = TrackedBefore


\* C32: the install of a download leaves at the target path either what was
\* there or the complete content of the fetched object, never the output of
\* a decompression that stopped part-way; and an install that fails leaves
\* the target as it was.
AtomicInstall ==
    [][\A p \in Procs : \A f \in Paths :
          (task[p][f].pc = "dinstall" /\ task'[p][f] # task[p][f])
          => /\ fs'[f] # fs[f] => fs'[f] \in Contents
             /\ task'[p][f].pc = "failed" => fs'[f] = fs[f]]_vars


\* C33: when a run of upload or download has ended, by a return or by an
\* error, none of its temporary files is left in the temporary directory.
NoTempLeft ==
    answer.pc \in {"returned", "raised"} => answer.temp = {}


\* C34: after any sequence of chunked uploads of one file under one key, the
\* chunk objects of the key, concatenated in index order, are the compressed
\* blob of the file, and a download that follows writes the file's bytes.
SurvivingChunks ==
    (answer.step # "new" /\ answer.single = <<>>)
        => /\ merge_files(answer.chunks) = gzip_compress(query.data)
           /\ answer.step = "downloaded"
                  => /\ ~answer.raised
                     /\ answer.file = query.data

\* C35: no key has both its unsuffixed object and a chunk object.
NoKeyInBothForms ==
    ~(answer.single # <<>> /\ answer.chunks # <<>>)


SweepMarksModified ==
    [][\A p \in Procs :
          (At(p, "sweep", "compare") /\ main'[p] # main[p])
          => LET f == NextResult(p) IN
             (\E d \in Digests : <<f, d>> \in main'[p].uploaded)
                 <=> task[p][f].hash # mem[p][f]]_vars

\* C38: a caller that holds the manifest lock and requests it again in the
\* same task is not blocked: no task waits with a handle for the lock while
\* a handle of its own holds it, where only that task could release it.
NoSelfDeadlock ==
    \A p \in Procs :
        ~(/\ Len(answer[p].handles) = 2
          /\ Innermost(p) = "open"
          /\ Len(lock) = 2
          /\ lock[1] = p)

\* C39: purge on remove is best-effort: when delete_object fails in a
\* remove_file or remove_subtree without keep_in_s3, the call does not raise,
\* and the entry it was purging is gone from the manifest on disk.
PurgeIsBestEffort ==
    [][\A p \in Procs :
          (/\ At(p, "remove", "delete") \/ At(p, "subtree", "pop")
           /\ ~main[p].keep
           /\ main'[p] # main[p]
           /\ faults' > faults)
          => /\ main'[p].out # "error"
             /\ At(p, "remove", "delete") => disk'[main[p].pat] = None]_vars

\* The same call has ended in both repositories, without an error.
BothEnded ==
    /\ answer.pc = "idle"
    /\ main["A"].pc = "idle"
    /\ answer.calls = calls
    /\ calls > 0
    /\ answer.out = "ok"
    /\ main["A"].out = "ok"

\* C40: the two pipelines are equivalent: when the same track or checkout,
\* started from equal repositories, has ended without an error in both, the
\* manifests, the objects of the bucket and the files of the working tree
\* are the same in both.
PipelinesEquivalent ==
    BothEnded => /\ answer.disk = disk
                 /\ answer.mem = mem["A"]
                 /\ answer.store = store
                 /\ answer.fs = fs

PipelinesEquivalentCase ==
    /\ BothEnded
    /\ calls = 2
    /\ answer.kind = "checkout"
    /\ answer.selected # {}
    /\ disk[PathDA] # None

=============================================================================
